---- MODULE Spec2Model ----
(***************************************************************************)
(* PtBillingsCalc: the billing totals engine (computeTotals), the calendar *)
(* helpers (getMonday, getSunday), the work-week grouping of the log page  *)
(* (groupByWorkWeek), the day store with the routes of /api/days (save,    *)
(* delete, list, detail, CSV exports), the budget upsert (setBudget), the  *)
(* monthly summaries of the dashboard (buildMonthlySummaries), the seeding *)
(* at startup (seedDatabase) and the calculator page (calculateTotals).    *)
(*                                                                         *)
(* Representation.                                                         *)
(*  - Currency amounts are exact decimals held as integers in units of     *)
(*    1/16 cent (1600 units per dollar), so that the 6.25% loading         *)
(*    (0.0625 = 1/16) of any sum of catalog amounts is again an integer.   *)
(*    The binary rounding of IEEE doubles is not represented.              *)
(*  - A string is a sequence of one-character strings.                     *)
(*  - A Date is its time value in whole days since 1970-01-01 UTC: every   *)
(*    Date the code builds is at UTC midnight (Date.UTC(y, m, d) with no   *)
(*    time part), so ms = 86400000 * days throughout.                      *)
(***************************************************************************)
EXTENDS Integers, Sequences, FiniteSets, TLC

VARIABLES
    counts,       \* totals engine: the count map handed to computeTotals
    totals,       \* totals engine: the result of the latest computeTotals call
    firstTotals,  \* totals engine: the result of the first call made with this map
    calls,        \* totals engine: computeTotals calls made with this map
    dateStr,      \* calendar: the date string handed to getMonday
    dateWeek,     \* calendar: getMonday/getSunday results for dateStr
    otherStr,     \* calendar: a second date string handed to getMonday
    otherWeek,    \* calendar: getMonday/getSunday results for otherStr
    days,         \* log page: the list of day records handed to groupByWorkWeek
    weeks,        \* log page: the list of work weeks groupByWorkWeek returned
    dailyTotals,     \* database: the rows of table daily_totals
    dailyLineItems,  \* database: the rows of table daily_line_items
    monthlyBudgets,  \* database: the rows of table monthly_budgets
    serial,          \* database: the next value of each table's id sequence
    req,             \* server: per client, the request being handled or answered
    issued,          \* server: requests received so far
    now,             \* server: the reading of the clock, in ticks
    budgets,         \* dashboard: the budget rows the query /api/budgets brought
    summaries,       \* dashboard: the list buildMonthlySummaries returned
    badges,          \* dashboard: the budget badge rendered for each summary
    weekEnding,      \* calculator page: the date entered
    saveMutation     \* calculator page: the save requests sent and the one pending

totalsVars == <<counts, totals, firstTotals, calls>>
dateVars == <<dateStr, dateWeek, otherStr, otherWeek>>
groupVars == <<days, weeks>>
tableVars == <<dailyTotals, dailyLineItems, monthlyBudgets>>
storeVars == <<dailyTotals, dailyLineItems, monthlyBudgets, serial, req, issued, now>>
pageVars == <<budgets, summaries, badges>>
calcVars == <<weekEnding, saveMutation>>
vars == <<counts, totals, firstTotals, calls, dateStr, dateWeek, otherStr, otherWeek, days, weeks,
          dailyTotals, dailyLineItems, monthlyBudgets, serial, req, issued, now,
          budgets, summaries, badges, weekEnding, saveMutation>>

(***************************************************************************)
(* Bounds of the explored inputs.                                          *)
(***************************************************************************)
MaxKeys == 2        \* keys present in a count map
MaxCount == 2       \* largest count entered for one item
MaxCalls == 2       \* computeTotals calls followed on one count map
WindowLen == 21     \* consecutive days explored from each window start
MaxDays == 3        \* day records in the list handed to groupByWorkWeek
MaxClients == 2     \* requests the server handles at the same time
MaxRequests == 3    \* requests the server receives in one run
MaxTicks == 1       \* ticks of the clock in one run

Clients == 1..MaxClients

\* A client slot with no request: nothing asked, nothing answered.
IdleRequest ==
    [op |-> "idle", pc |-> "done", date |-> <<>>, counts |-> <<>>, param |-> <<>>,
     id |-> 0, status |-> 0, days |-> <<>>, rows |-> <<>>,
     month |-> <<>>, budget |-> 0, threw |-> FALSE, createdAt |-> 0]

\* The database after the tables are created and the server before its first
\* request: empty tables, every id sequence at 1.
InitStoreIdle ==
    /\ dailyTotals = {}
    /\ dailyLineItems = {}
    /\ monthlyBudgets = {}
    /\ serial = [dailyTotals |-> 1, dailyLineItems |-> 1, monthlyBudgets |-> 1]
    /\ req = [c \in Clients |-> IdleRequest]
    /\ issued = 0
    /\ now = 0

\* The dashboard before its queries bring data: no budget, no summary.  The
\* calculator page as it mounts: no date entered, nothing sent.
InitPagesIdle ==
    /\ budgets = <<>>
    /\ summaries = <<>>
    /\ badges = <<>>
    /\ weekEnding = <<>>
    /\ saveMutation = [isPending |-> FALSE, sent |-> 0, body |-> <<>>]

(***************************************************************************)
(* Pricing catalog.                                                        *)
(***************************************************************************)
\* An amount of c cents, in units of 1/16 cent.
Cents(c) == c * 16

LINE_ITEMS == <<
    [key |-> "facilities_visited",     label |-> "Facilities Visited",        minutes |-> 0,  baseAmount |-> Cents(6415),  bbiAmount |-> Cents(0)],
    [key |-> "consult_a_90020",        label |-> "Consult - A (90020)",       minutes |-> 2,  baseAmount |-> Cents(2005),  bbiAmount |-> Cents(860)],
    [key |-> "consult_b_90035",        label |-> "Consult - B (90035)",       minutes |-> 6,  baseAmount |-> Cents(4390),  bbiAmount |-> Cents(2570)],
    [key |-> "consult_c_90043",        label |-> "Consult - C (90043)",       minutes |-> 20, baseAmount |-> Cents(8490),  bbiAmount |-> Cents(2570)],
    [key |-> "consult_d_90051",        label |-> "Consult - D (90051)",       minutes |-> 40, baseAmount |-> Cents(12510), bbiAmount |-> Cents(2570)],
    [key |-> "consult_e_90054",        label |-> "Consult - E (90054)",       minutes |-> 60, baseAmount |-> Cents(20265), bbiAmount |-> Cents(2570)],
    [key |-> "consult_a_ah_5010",      label |-> "Consult - A AH (5010)",     minutes |-> 2,  baseAmount |-> Cents(3770),  bbiAmount |-> Cents(860)],
    [key |-> "consult_b_ah_5028",      label |-> "Consult - B AH (5028)",     minutes |-> 6,  baseAmount |-> Cents(6105),  bbiAmount |-> Cents(2570)],
    [key |-> "consult_c_5049",         label |-> "Consult - C (5049)",        minutes |-> 20, baseAmount |-> Cents(10190), bbiAmount |-> Cents(2570)],
    [key |-> "consult_d_5067",         label |-> "Consult - D (5067)",        minutes |-> 40, baseAmount |-> Cents(14130), bbiAmount |-> Cents(2570)],
    [key |-> "consult_e_5077",         label |-> "Consult - E (5077)",        minutes |-> 60, baseAmount |-> Cents(23730), bbiAmount |-> Cents(2570)],
    [key |-> "urgent_unsociable_599",  label |-> "Urgent Unsociable (599)",   minutes |-> 15, baseAmount |-> Cents(17850), bbiAmount |-> Cents(860)],
    [key |-> "health_ax",              label |-> "Health Ax",                 minutes |-> 60, baseAmount |-> Cents(31360), bbiAmount |-> Cents(860)],
    [key |-> "rmmr_standalone",        label |-> "RMMR - Standalone",         minutes |-> 10, baseAmount |-> Cents(12370), bbiAmount |-> Cents(860)],
    [key |-> "rmmr_cobilled",          label |-> "RMMR - Co-billed",          minutes |-> 10, baseAmount |-> Cents(12370), bbiAmount |-> Cents(860)],
    [key |-> "mdcp_731_standalone",    label |-> "MDCP (731) - Standalone",   minutes |-> 10, baseAmount |-> Cents(8210),  bbiAmount |-> Cents(860)],
    [key |-> "mdcp_731_cobilled",      label |-> "MDCP (731) - Co-billed",    minutes |-> 10, baseAmount |-> Cents(8210),  bbiAmount |-> Cents(860)],
    [key |-> "mdt_739",                label |-> "MDT (739)",                 minutes |-> 20, baseAmount |-> Cents(14105), bbiAmount |-> Cents(860)]
>>

CatalogKeys == {LINE_ITEMS[i].key : i \in 1..Len(LINE_ITEMS)}

\* Keys a caller may send that the catalog does not know.
UnknownKeys == {"unknown_item"}

\* The keys the explored count maps are built from: the first and the last
\* catalog item, the item of the documented example, items of 15 and 60
\* minutes, two items with equal prices, and a key outside the catalog.
InputKeys ==
    {"facilities_visited", "consult_a_90020", "consult_e_90054",
     "urgent_unsociable_599", "rmmr_standalone", "rmmr_cobilled", "mdt_739"}
    \cup UnknownKeys

(***************************************************************************)
(* computeTotals                                                           *)
(***************************************************************************)
EmptyMap == [k \in {} |-> 0]

\* counts[item.key] || 1 : an absent key counts once.
CountOrOne(cm, key) == IF key \in DOMAIN cm THEN cm[key] ELSE 1

\* counts[item.key] || 0 : an absent key reads undefined, and undefined and 0
\* both give 0.
CountOrZero(cm, key) == IF key \in DOMAIN cm THEN cm[key] ELSE 0

\* let totalMinutes = 0; let prelimWithBbi = 0; let prelimWithoutBbi = 0;
ZeroAcc == [totalMinutes |-> 0, prelimWithBbi |-> 0, prelimWithoutBbi |-> 0]

\* The loop body with the BBI amount left out of prelimWithBbi.
AccumulateBaseOnly(acc, item, c) ==
    [totalMinutes     |-> acc.totalMinutes + c * item.minutes,
     prelimWithBbi    |-> acc.prelimWithBbi + c * item.baseAmount,
     prelimWithoutBbi |-> acc.prelimWithoutBbi + c * item.baseAmount]

\* One pass of the loop body for catalog item `item`.
Accumulate(acc, item, c) ==
    [totalMinutes     |-> acc.totalMinutes + c * item.minutes,
     prelimWithBbi    |-> acc.prelimWithBbi + c * (item.baseAmount + item.bbiAmount),
     prelimWithoutBbi |-> acc.prelimWithoutBbi + c * item.baseAmount]

RECURSIVE SumLineItems(_, _, _)
\* for (const item of LINE_ITEMS) { ... }, from catalog position i on.
SumLineItems(cm, i, acc) ==
    IF i > Len(LINE_ITEMS) THEN acc
    ELSE SumLineItems(cm, i + 1,
                      Accumulate(acc, LINE_ITEMS[i], CountOrZero(cm, LINE_ITEMS[i].key)))

\* 0.0625 * x, exact because 0.0625 = 1/16 and x is a multiple of 16 units.
LoadingDivisor == 16

Loading(x) == x \div LoadingDivisor

MinutesPerHour == 60

\* Math.floor(m / 60) in place of Math.ceil.
FloorHours(m) == m \div MinutesPerHour

\* Math.ceil(m / 60)
CeilHours(m) == -((-m) \div MinutesPerHour)

\* The loading is taken on the amount with BBI instead of the base amount.
FinishTotalsLoadingOnBbi(acc) ==
    LET loading625 == Loading(acc.prelimWithBbi)
    IN [totalMinutes     |-> acc.totalMinutes,
        totalHours       |-> IF acc.totalMinutes > 0 THEN CeilHours(acc.totalMinutes) ELSE 0,
        prelimWithBbi    |-> acc.prelimWithBbi,
        prelimWithoutBbi |-> acc.prelimWithoutBbi,
        loading625       |-> loading625,
        totalBillings    |-> acc.prelimWithBbi + loading625]

\* The statements after the loop and the returned object.
FinishTotals(acc) ==
    LET loading625 == Loading(acc.prelimWithoutBbi)
    IN [totalMinutes     |-> acc.totalMinutes,
        totalHours       |-> IF acc.totalMinutes > 0 THEN CeilHours(acc.totalMinutes) ELSE 0,
        prelimWithBbi    |-> acc.prelimWithBbi,
        prelimWithoutBbi |-> acc.prelimWithoutBbi,
        loading625       |-> loading625,
        totalBillings    |-> acc.prelimWithBbi + loading625]

\* The accumulators start from the running totals instead of zero, as they
\* would if they were kept outside the function.
computeTotalsStale(cm) ==
    FinishTotals(SumLineItems(cm, 1, [totalMinutes     |-> totals.totalMinutes,
                                      prelimWithBbi    |-> totals.prelimWithBbi,
                                      prelimWithoutBbi |-> totals.prelimWithoutBbi]))

computeTotals(cm) == FinishTotals(SumLineItems(cm, 1, ZeroAcc))

\* counts[item.key] ||= 0: a read that stores the default under the key.
ReadCountDefaulting(cm, key) ==
    [k \in DOMAIN cm \cup {key} |-> IF k \in DOMAIN cm THEN cm[k] ELSE 0]

\* The caller's map after `counts[item.key] || 0` for the item `key`: the
\* expression reads the entry and writes nothing.
ReadCount(cm, key) == cm

RECURSIVE CountsAfterLoop(_, _)
\* The caller's map after the iterations i.. of the loop over LINE_ITEMS.
CountsAfterLoop(cm, i) ==
    IF i > Len(LINE_ITEMS) THEN cm
    ELSE CountsAfterLoop(ReadCount(cm, LINE_ITEMS[i].key), i + 1)

\* The caller's map when computeTotals(cm) has returned: the loop is the
\* only part of the function that uses it.
CountsAfterComputeTotals(cm) == CountsAfterLoop(cm, 1)

(***************************************************************************)
(* Totals engine as a state machine: a caller builds a count map one key   *)
(* at a time and calls computeTotals on each map, possibly repeatedly.     *)
(***************************************************************************)
\* z.number().int().min(0): the counts that reach computeTotals.
CountValues == 0..MaxCount

\* computeTotals(cm). firstTotals keeps the result of the first call made
\* with the map; a repeated call with the same map leaves it alone.
CallComputeTotals(cm) ==
    /\ counts' = CountsAfterComputeTotals(cm)
    /\ totals' = computeTotals(cm)
    /\ firstTotals' = IF cm = counts THEN firstTotals ELSE computeTotals(cm)
    /\ calls' = IF cm = counts THEN calls + 1 ELSE 1

PutCount(key, n) ==
    /\ key \in DOMAIN counts \/ Cardinality(DOMAIN counts) < MaxKeys
    /\ key \in DOMAIN counts => counts[key] # n
    /\ CallComputeTotals([k \in DOMAIN counts \cup {key} |->
                              IF k = key THEN n ELSE counts[k]])
    /\ UNCHANGED <<dateVars, groupVars, storeVars, pageVars, calcVars>>

DropKey(key) ==
    /\ key \in DOMAIN counts
    /\ CallComputeTotals([k \in DOMAIN counts \ {key} |-> counts[k]])
    /\ UNCHANGED <<dateVars, groupVars, storeVars, pageVars, calcVars>>

Recompute ==
    /\ calls < MaxCalls
    /\ CallComputeTotals(counts)
    /\ UNCHANGED <<dateVars, groupVars, storeVars, pageVars, calcVars>>

InitOther ==
    /\ dateStr = <<>>
    /\ dateWeek = <<>>
    /\ otherStr = <<>>
    /\ otherWeek = <<>>
    /\ days = <<>>
    /\ weeks = <<>>
    /\ InitStoreIdle
    /\ InitPagesIdle

\* Before any key is set: the empty map, whose loop leaves the accumulators
\* at zero.
InitTotals ==
    /\ counts = EmptyMap
    /\ totals = FinishTotals(ZeroAcc)
    /\ firstTotals = FinishTotals(ZeroAcc)
    /\ calls = 1
    /\ InitOther

NextTotals ==
    \/ \E key \in InputKeys, n \in CountValues : PutCount(key, n)
    \/ \E key \in InputKeys : DropKey(key)
    \/ Recompute

SpecTotals == InitTotals /\ [][NextTotals]_vars

(***************************************************************************)
(* Strings: String(n), padStart, split("-"), Number.                       *)
(***************************************************************************)
DigitChars == <<"0", "1", "2", "3", "4", "5", "6", "7", "8", "9">>

DigitValue(c) == CHOOSE v \in 0..9 : DigitChars[v + 1] = c

RECURSIVE StringOf(_)
\* String(n) for an integer n >= 0: its decimal digits, no leading zero.
StringOf(n) ==
    IF n < 10 THEN <<DigitChars[n + 1]>>
    ELSE Append(StringOf(n \div 10), DigitChars[(n % 10) + 1])

RECURSIVE PadStart(_, _)
\* s.padStart(len, "0")
PadStart(s, len) == IF Len(s) >= len THEN s ELSE PadStart(<<"0">> \o s, len)

RECURSIVE SplitFrom(_, _, _)
\* The parts of s.split("-") from position i on, cur being the part begun.
SplitFrom(s, i, cur) ==
    IF i > Len(s) THEN <<cur>>
    ELSE IF s[i] = "-" THEN <<cur>> \o SplitFrom(s, i + 1, <<>>)
    ELSE SplitFrom(s, i + 1, Append(cur, s[i]))

\* s.split("-")
Split(s) == SplitFrom(s, 1, <<>>)

RECURSIVE ToNumber(_)
\* Number(s) for a string of decimal digits (leading zeros allowed).
ToNumber(s) ==
    IF s = <<>> THEN 0
    ELSE 10 * ToNumber(SubSeq(s, 1, Len(s) - 1)) + DigitValue(s[Len(s)])

(***************************************************************************)
(* ECMAScript Date, in whole days (see the head of the module).            *)
(***************************************************************************)
\* DaysInYear(y) = 366
InLeapYear(y) == (y % 4 = 0 /\ y % 100 # 0) \/ y % 400 = 0

\* DayFromYear(y): the day number of 1 January of year y.
DayFromYear(y) ==
    365 * (y - 1970) + ((y - 1969) \div 4) - ((y - 1901) \div 100) + ((y - 1601) \div 400)

\* Days of the year before month mn (0 = January) begins.
DaysBeforeMonth(y, mn) ==
    <<0, 31, 59, 90, 120, 151, 181, 212, 243, 273, 304, 334>>[mn + 1]
        + (IF InLeapYear(y) /\ mn >= 2 THEN 1 ELSE 0)

\* MakeDay(year, month, date); month and date may lie outside their range.
MakeDay(year, month, date) ==
    LET ym == year + (month \div 12)
        mn == month % 12
    IN DayFromYear(ym) + DaysBeforeMonth(ym, mn) + date - 1

\* MakeFullYear: Date.UTC reads the years 0..99 as 1900..1999.
MakeFullYear(year) == IF 0 <= year /\ year <= 99 THEN 1900 + year ELSE year

\* Date.UTC(year, month, day) with no time part.
DateUTC(year, month, day) == MakeDay(MakeFullYear(year), month, day)

\* YearFromTime: the year whose 1 January is the last one on or before t.
YearFromTime(t) ==
    LET est == 1970 + ((t * 400) \div 146097)
    IN CHOOSE y \in (est - 1)..(est + 1) : DayFromYear(y) <= t /\ t < DayFromYear(y + 1)

\* MonthFromTime, 0 = January.
MonthFromTime(t) ==
    LET y == YearFromTime(t)
        dayInYear == t - DayFromYear(y)
    IN CHOOSE mn \in 0..11 :
          /\ DaysBeforeMonth(y, mn) <= dayInYear
          /\ mn < 11 => dayInYear < DaysBeforeMonth(y, mn + 1)

\* DateFromTime: the day of the month, from 1.
DateFromTime(t) ==
    LET y == YearFromTime(t)
    IN t - DayFromYear(y) - DaysBeforeMonth(y, MonthFromTime(t)) + 1

\* WeekDay(t), 0 = Sunday: 1 January 1970 was a Thursday.
WeekDay(t) == (t + 4) % 7

\* d.setUTCDate(dt): the same year and month, day dt (MakeDay carries over).
SetUTCDate(t, dt) == MakeDay(YearFromTime(t), MonthFromTime(t), dt)

(***************************************************************************)
(* parseIsoDate, formatIsoDate, getMonday, getSunday                       *)
(***************************************************************************)
parseIsoDate(str) ==
    LET parts == Split(str)
        year == ToNumber(parts[1])
        month == ToNumber(parts[2])
        day == ToNumber(parts[3])
    IN DateUTC(year, month - 1, day)

formatIsoDate(date) ==
    LET year == YearFromTime(date)
        month == PadStart(StringOf(MonthFromTime(date) + 1), 2)
        day == PadStart(StringOf(DateFromTime(date)), 2)
    IN StringOf(year) \o <<"-">> \o month \o <<"-">> \o day

\* diff = 1 - day for every weekday: a Sunday moves on to the next Monday.
getMondaySundayForward(str) ==
    LET d == parseIsoDate(str)
        day == WeekDay(d)
        diff == 1 - day
    IN formatIsoDate(SetUTCDate(d, DateFromTime(d) + diff))

getMonday(str) ==
    LET d == parseIsoDate(str)
        day == WeekDay(d)
        diff == IF day = 0 THEN -6 ELSE 1 - day
        monday == SetUTCDate(d, DateFromTime(d) + diff)
    IN formatIsoDate(monday)

getSunday(mondayStr) ==
    LET d == parseIsoDate(mondayStr)
    IN formatIsoDate(SetUTCDate(d, DateFromTime(d) + 6))

(***************************************************************************)
(* Calendar as a state machine: getMonday and getSunday are applied to     *)
(* date strings the validation admits (/^\d{4}-\d{2}-\d{2}$/) that name a  *)
(* calendar date.                                                          *)
(***************************************************************************)
\* The zero-padded YYYY-MM-DD string of the calendar date y-m-d.
IsoString(y, m, d) ==
    PadStart(StringOf(y), 4) \o <<"-">> \o PadStart(StringOf(m), 2)
        \o <<"-">> \o PadStart(StringOf(d), 2)

\* The YYYY-MM-DD string of day number t.
IsoStringOfDay(t) == IsoString(YearFromTime(t), MonthFromTime(t) + 1, DateFromTime(t))

\* First days of the explored stretches of the calendar: the weeks of the
\* documented examples, a leap day, a turn of the year, and years written
\* with leading zeros.
WindowStarts ==
    { <<2026, 2, 2>>, <<2024, 2, 19>>, <<2025, 12, 22>>,
      <<26, 2, 2>>, <<99, 12, 20>>, <<999, 12, 20>> }

InputDates ==
    { IsoStringOfDay(MakeDay(w[1], w[2] - 1, w[3]) + k) :
          w \in WindowStarts, k \in 0..(WindowLen - 1) }

\* The day number each input string was written from.
InputDay ==
    [str \in InputDates |->
        CHOOSE t \in { MakeDay(w[1], w[2] - 1, w[3]) + k :
                          w \in WindowStarts, k \in 0..(WindowLen - 1) } :
            IsoStringOfDay(t) = str]

\* getMonday(str), getSunday of it, and getMonday of it again.
WeekOf(str) ==
    [monday    |-> getMonday(str),
     sunday    |-> getSunday(getMonday(str)),
     mondayOfMonday |-> getMonday(getMonday(str))]

\* The calls' results for every input, computed once.
WeekOfInput == [str \in InputDates |-> WeekOf(str)]

\* getMonday on a date; the second date starts out as the same one.
CallGetMonday(str) ==
    /\ dateStr' = str
    /\ dateWeek' = WeekOfInput[str]
    /\ otherStr' = str
    /\ otherWeek' = WeekOfInput[str]
    /\ UNCHANGED <<totalsVars, groupVars, storeVars, pageVars, calcVars>>

\* getMonday on a second date, less than WindowLen days away from the first.
CallGetMondayOther(str) ==
    /\ InputDay[str] - InputDay[dateStr] < WindowLen
    /\ InputDay[dateStr] - InputDay[str] < WindowLen
    /\ otherStr' = str
    /\ otherWeek' = WeekOfInput[str]
    /\ UNCHANGED <<dateStr, dateWeek, totalsVars, groupVars, storeVars, pageVars, calcVars>>

InitDates ==
    /\ dateStr \in InputDates
    /\ dateWeek = WeekOfInput[dateStr]
    /\ otherStr = dateStr
    /\ otherWeek = dateWeek
    /\ counts = EmptyMap
    /\ totals = FinishTotals(ZeroAcc)
    /\ firstTotals = FinishTotals(ZeroAcc)
    /\ calls = 1
    /\ days = <<>>
    /\ weeks = <<>>
    /\ InitStoreIdle
    /\ InitPagesIdle

NextDates ==
    \/ \E str \in InputDates : CallGetMonday(str)
    \/ \E str \in InputDates : CallGetMondayOther(str)

SpecDates == InitDates /\ [][NextDates]_vars

(***************************************************************************)
(* groupByWorkWeek (log page)                                              *)
(***************************************************************************)
\* The collation rank of a character of a date string: "-" sorts before the
\* digits, the digits sort by value.
CharRank(c) == IF c = "-" THEN 0 ELSE DigitValue(c) + 1

RECURSIVE CompareFrom(_, _, _)
\* a.localeCompare(b) from position i on: negative, 0 or positive.
CompareFrom(a, b, i) ==
    IF i > Len(a) /\ i > Len(b) THEN 0
    ELSE IF i > Len(a) THEN -1
    ELSE IF i > Len(b) THEN 1
    ELSE IF CharRank(a[i]) < CharRank(b[i]) THEN -1
    ELSE IF CharRank(a[i]) > CharRank(b[i]) THEN 1
    ELSE CompareFrom(a, b, i + 1)

\* a.localeCompare(b)
localeCompare(a, b) == CompareFrom(a, b, 1)

\* The position of the bucket of `monday` in weekMap, 0 when it has none.
BucketIndex(weekMap, monday) ==
    IF \E i \in 1..Len(weekMap) : weekMap[i].monday = monday
    THEN CHOOSE i \in 1..Len(weekMap) : weekMap[i].monday = monday
    ELSE 0

\* weekMap[monday] = [day]: a day replaces the bucket instead of joining it.
PushDayOverwrite(weekMap, monday, day) ==
    LET i == BucketIndex(weekMap, monday)
    IN IF i = 0 THEN Append(weekMap, [monday |-> monday, days |-> <<day>>])
       ELSE [weekMap EXCEPT ![i].days = <<day>>]

\* if (!weekMap[monday]) weekMap[monday] = []; weekMap[monday].push(day);
\* weekMap keeps its keys in insertion order, as Object.keys lists them.
PushDay(weekMap, monday, day) ==
    LET i == BucketIndex(weekMap, monday)
    IN IF i = 0 THEN Append(weekMap, [monday |-> monday, days |-> <<day>>])
       ELSE [weekMap EXCEPT ![i].days = Append(@, day)]

RECURSIVE BuildWeekMap(_, _, _)
\* for (const day of days) { ... }, from position i on.
BuildWeekMap(dayList, i, weekMap) ==
    IF i > Len(dayList) THEN weekMap
    ELSE BuildWeekMap(dayList, i + 1,
                      PushDay(weekMap, getMonday(dayList[i].date), dayList[i]))

RECURSIVE InsertByDate(_, _)
\* day placed behind every element that does not sort after it.
InsertByDate(sorted, day) ==
    IF sorted = <<>> THEN <<day>>
    ELSE IF localeCompare(sorted[Len(sorted)].date, day.date) <= 0 THEN Append(sorted, day)
    ELSE Append(InsertByDate(SubSeq(sorted, 1, Len(sorted) - 1), day), sorted[Len(sorted)])

RECURSIVE SortByDate(_)
\* weekDays.sort((a, b) => a.date.localeCompare(b.date)); the sort is stable.
SortByDate(dayList) ==
    IF dayList = <<>> THEN <<>>
    ELSE InsertByDate(SortByDate(SubSeq(dayList, 1, Len(dayList) - 1)), dayList[Len(dayList)])

RECURSIVE InsertByMondayDesc(_, _)
InsertByMondayDesc(sorted, week) ==
    IF sorted = <<>> THEN <<week>>
    ELSE IF localeCompare(week.monday, sorted[Len(sorted)].monday) <= 0 THEN Append(sorted, week)
    ELSE Append(InsertByMondayDesc(SubSeq(sorted, 1, Len(sorted) - 1), week),
                sorted[Len(sorted)])

RECURSIVE SortByMondayDesc(_)
\* weeks.sort((a, b) => b.monday.localeCompare(a.monday))
SortByMondayDesc(weekList) ==
    IF weekList = <<>> THEN <<>>
    ELSE InsertByMondayDesc(SortByMondayDesc(SubSeq(weekList, 1, Len(weekList) - 1)),
                            weekList[Len(weekList)])

RECURSIVE ReduceSum(_, _, _)
\* sorted.reduce((s, d) => s + d[field], 0), from position i on.
ReduceSum(dayList, field, i) ==
    IF i > Len(dayList) THEN 0
    ELSE dayList[i][field] + ReduceSum(dayList, field, i + 1)

\* The object pushed onto weeks for one key of weekMap.
MakeWeek(bucket) ==
    LET sorted == SortByDate(bucket.days)
    IN [monday           |-> bucket.monday,
        sunday           |-> getSunday(bucket.monday),
        days             |-> sorted,
        totalBillings    |-> ReduceSum(sorted, "totalBillings", 1),
        totalMinutes     |-> ReduceSum(sorted, "totalMinutes", 1),
        totalHours       |-> ReduceSum(sorted, "totalHours", 1),
        prelimWithBbi    |-> ReduceSum(sorted, "prelimWithBbi", 1),
        prelimWithoutBbi |-> ReduceSum(sorted, "prelimWithoutBbi", 1),
        loading625       |-> ReduceSum(sorted, "loading625", 1)]

\* The arrays of a call of groupByWorkWeek when its first loop is done: the
\* caller's list and the buckets of weekMap, each a new array that holds
\* the records pushed into it.
ArraysAfterBuild(dayList) ==
    [days |-> dayList, weekMap |-> BuildWeekMap(dayList, 1, <<>>)]

\* A sort that acts on the caller's list instead of the bucket.
SortInPlaceOnInput(arrays, i) == [arrays EXCEPT !.days = SortByDate(@)]

\* weekDays.sort(...): sorts the array weekMap[monday] of the i-th key in
\* place.
SortInPlace(arrays, i) == [arrays EXCEPT !.weekMap[i].days = SortByDate(@)]

RECURSIVE ArraysAfterSorts(_, _)
\* for (const monday of mondays) { ... weekDays.sort(...) ... }, from the
\* i-th key on.
ArraysAfterSorts(arrays, i) ==
    IF i > Len(arrays.weekMap) THEN arrays
    ELSE ArraysAfterSorts(SortInPlace(arrays, i), i + 1)

\* The caller's list when groupByWorkWeek(dayList) has returned.
DaysAfterGroupByWorkWeek(dayList) == ArraysAfterSorts(ArraysAfterBuild(dayList), 1).days

groupByWorkWeek(dayList) ==
    LET weekMap == BuildWeekMap(dayList, 1, <<>>)
        pushed == [i \in 1..Len(weekMap) |-> MakeWeek(weekMap[i])]
    IN SortByMondayDesc(pushed)

(***************************************************************************)
(* Log page as a state machine: the list of day records grows by one       *)
(* record at a time and is grouped anew, as on every render.               *)
(***************************************************************************)
\* Dates of the day records: the two dates of the documented grouping
\* example, the Sunday after them, a day whose Monday lies in the year
\* before, and dates of years written with leading zeros, two of them in
\* one calendar week of the year 26.
RecordDates ==
    { IsoString(2026, 2, 9), IsoString(2026, 2, 13), IsoString(2026, 2, 15),
      IsoString(2026, 1, 1), IsoString(100, 1, 1), IsoString(999, 12, 31),
      IsoString(26, 2, 11), IsoString(26, 2, 15) }

\* Count maps the records' totals are computed from.
RecordCounts ==
    { [k \in {"consult_a_90020"} |-> 2],
      [k \in {"consult_e_90054", "urgent_unsociable_599"} |-> 1] }

\* The row createDay stores for a save of `date` with `cm`, under the next id.
DayRecord(id, date, cm) ==
    LET t == computeTotals(cm)
    IN [id               |-> id,
        date             |-> date,
        totalBillings    |-> t.totalBillings,
        prelimWithBbi    |-> t.prelimWithBbi,
        prelimWithoutBbi |-> t.prelimWithoutBbi,
        loading625       |-> t.loading625,
        totalMinutes     |-> t.totalMinutes,
        totalHours       |-> t.totalHours]

\* One more record reaches the page (dates are unique in daily_totals): its
\* totals were computed from the counts of its save, and the list with it is
\* grouped.  `counts` and `days` are the map and the list as the calls leave
\* them.
AddDay(date, cm) ==
    /\ Len(days) < MaxDays
    /\ \A i \in 1..Len(days) : days[i].date # date
    /\ CallComputeTotals(cm)
    /\ LET handed == Append(days, DayRecord(Len(days) + 1, date, cm))
       IN /\ days' = DaysAfterGroupByWorkWeek(handed)
          /\ weeks' = groupByWorkWeek(handed)
    /\ UNCHANGED <<dateVars, storeVars, pageVars, calcVars>>

InitGroup ==
    /\ days = <<>>
    /\ weeks = <<>>
    /\ counts = EmptyMap
    /\ totals = FinishTotals(ZeroAcc)
    /\ firstTotals = FinishTotals(ZeroAcc)
    /\ calls = 1
    /\ dateStr = <<>>
    /\ dateWeek = <<>>
    /\ otherStr = <<>>
    /\ otherWeek = <<>>
    /\ InitStoreIdle
    /\ InitPagesIdle

NextGroup == \E date \in RecordDates, cm \in RecordCounts : AddDay(date, cm)

SpecGroup == InitGroup /\ [][NextGroup]_vars

(***************************************************************************)
(* Properties of the totals engine.                                        *)
(***************************************************************************)
RECURSIVE SumSet(_, _)
\* The sum of f[x] over the finite set S.
SumSet(S, f) ==
    IF S = {} THEN 0
    ELSE LET x == CHOOSE y \in S : TRUE IN f[x] + SumSet(S \ {x}, f)

CatalogIndex == 1..Len(LINE_ITEMS)

\* The count the map gives a key: its entry, and 0 without one.
CountFor(cm, key) == IF key \in DOMAIN cm THEN cm[key] ELSE 0

SumOfMinutes(cm) ==
    SumSet(CatalogIndex,
           [i \in CatalogIndex |-> CountFor(cm, LINE_ITEMS[i].key) * LINE_ITEMS[i].minutes])

SumWithBbi(cm) ==
    SumSet(CatalogIndex,
           [i \in CatalogIndex |-> CountFor(cm, LINE_ITEMS[i].key)
                                      * (LINE_ITEMS[i].baseAmount + LINE_ITEMS[i].bbiAmount)])

SumWithoutBbi(cm) ==
    SumSet(CatalogIndex,
           [i \in CatalogIndex |-> CountFor(cm, LINE_ITEMS[i].key) * LINE_ITEMS[i].baseAmount])

\* C1: for every count map of non-negative integers, loading625 is 0.0625
\* times prelimWithoutBbi (16 * loading625 = prelimWithoutBbi, with nothing
\* lost), and totalBillings = prelimWithBbi + loading625, that is
\* prelimWithBbi + 0.0625 * prelimWithoutBbi.
C1_LoadingAndGrandTotal ==
    /\ 16 * totals.loading625 = totals.prelimWithoutBbi
    /\ totals.totalBillings = totals.prelimWithBbi + totals.loading625
    /\ 16 * totals.totalBillings = 16 * totals.prelimWithBbi + totals.prelimWithoutBbi

C1_Witness ==
    /\ totals.loading625 > 0
    /\ totals.prelimWithBbi > totals.prelimWithoutBbi

\* C2: totalMinutes, prelimWithBbi and prelimWithoutBbi are the sums over
\* all catalog items of count * minutes, count * (baseAmount + bbiAmount)
\* and count * baseAmount; {consult_a_90020: 2} gives 4 minutes, 57.30 and
\* 40.10.
C2_CatalogSums ==
    /\ totals.totalMinutes = SumOfMinutes(counts)
    /\ totals.prelimWithBbi = SumWithBbi(counts)
    /\ totals.prelimWithoutBbi = SumWithoutBbi(counts)
    /\ counts = [k \in {"consult_a_90020"} |-> 2] =>
          /\ totals.totalMinutes = 4
          /\ totals.prelimWithBbi = Cents(5730)
          /\ totals.prelimWithoutBbi = Cents(4010)

C2_Witness ==
    /\ counts = [k \in {"consult_a_90020"} |-> 2]
    /\ totals.prelimWithBbi = Cents(5730)

\* C3: for non-negative counts, totalHours = 0 exactly when totalMinutes = 0,
\* otherwise totalHours is the ceiling of totalMinutes / 60 (the least h
\* with 60 * h >= totalMinutes); the empty map gives 0 in all six fields.
C3_HoursCeiling ==
    /\ (totals.totalHours = 0) <=> (totals.totalMinutes = 0)
    /\ totals.totalMinutes # 0 =>
          /\ 60 * totals.totalHours >= totals.totalMinutes
          /\ 60 * (totals.totalHours - 1) < totals.totalMinutes
    /\ counts = EmptyMap =>
          totals = [totalMinutes |-> 0, totalHours |-> 0, prelimWithBbi |-> 0,
                    prelimWithoutBbi |-> 0, loading625 |-> 0, totalBillings |-> 0]

C3_Witness ==
    /\ totals.totalMinutes > 60
    /\ totals.totalMinutes % 60 # 0
    /\ totals.totalHours = 2

\* The map restricted to the catalog keys and extended with 0 for every
\* catalog key it lacks.
RestrictAndFill(cm) == [k \in CatalogKeys |-> IF k \in DOMAIN cm THEN cm[k] ELSE 0]

\* C4: keys outside the catalog are ignored and catalog keys missing from the
\* map count as 0: the totals of a map are the totals of the map restricted
\* to the catalog keys and filled with 0 for every absent catalog key.
C4_UnknownIgnoredMissingZero ==
    /\ totals = computeTotals(RestrictAndFill(counts))
    /\ totals = computeTotals([k \in DOMAIN counts \cap CatalogKeys |-> counts[k]])

C4_Witness ==
    /\ \E k \in DOMAIN counts \ CatalogKeys : counts[k] > 0
    /\ \E k \in DOMAIN counts \cap CatalogKeys : counts[k] > 0
    /\ totals.totalBillings > 0

CalendarDay(str) ==
    LET parts == Split(str)
    IN MakeDay(ToNumber(parts[1]), ToNumber(parts[2]) - 1, ToNumber(parts[3]))

\* The number of the Monday-to-Sunday week day t lies in.
CalendarWeek(t) == (t + 3) \div 7

\* C6: for every calendar date d, getMonday(d) is a Monday on or before d and
\* at most 6 days before it; for a Sunday it is exactly 6 days earlier, for a
\* Monday it is d itself; 2026-02-11 gives 2026-02-09.
C6_MondayOnOrBefore ==
    LET d == CalendarDay(dateStr)
        m == CalendarDay(dateWeek.monday)
    IN /\ WeekDay(m) = 1
       /\ m <= d
       /\ d - m <= 6
       /\ WeekDay(d) = 0 => d - m = 6
       /\ WeekDay(d) = 1 => m = d
       /\ dateStr = IsoString(2026, 2, 11) => dateWeek.monday = IsoString(2026, 2, 9)

\* C7: for every date d, getMonday(getMonday(d)) = getMonday(d), and
\* getSunday(getMonday(d)) is exactly 6 days after getMonday(d).
C7_MondayIdempotentSundaySixLater ==
    /\ dateWeek.mondayOfMonday = dateWeek.monday
    /\ CalendarDay(dateWeek.sunday) = CalendarDay(dateWeek.monday) + 6

\* C8: the Monday of a work week is determined by any date within it: every
\* date e from getMonday(d) to getSunday(getMonday(d)) has getMonday(e) =
\* getMonday(d), and two dates with different getMonday values never lie in
\* the same Monday-to-Sunday range.
C8_MondayDeterminedByAnyDate ==
    LET e == CalendarDay(otherStr)
    IN /\ (CalendarDay(dateWeek.monday) <= e /\ e <= CalendarDay(dateWeek.sunday))
             => otherWeek.monday = dateWeek.monday
       /\ otherWeek.monday # dateWeek.monday
             => CalendarWeek(e) # CalendarWeek(CalendarDay(dateStr))

(***************************************************************************)
(* Properties of the work-week grouping.                                   *)
(***************************************************************************)
\* The places <<w, j>> of the returned weeks that hold the record `day`.
PlacesOf(day) ==
    { p \in UNION { { <<w, j>> : j \in 1..Len(weeks[w].days) } : w \in 1..Len(weeks) } :
          weeks[p[1]].days[p[2]] = day }

\* C9: grouping law: the sum of the weeks' aggregated totalBillings equals
\* the sum of totalBillings over all input records; no record is dropped or
\* counted twice.
C9_GroupingLaw ==
    SumSet(1..Len(weeks), [w \in 1..Len(weeks) |-> weeks[w].totalBillings])
        = SumSet(1..Len(days), [i \in 1..Len(days) |-> days[i].totalBillings])

C9_Witness ==
    /\ Len(days) = MaxDays
    /\ Len(weeks) >= 2
    /\ \E w \in 1..Len(weeks) : Len(weeks[w].days) >= 2

\* C10: groupByWorkWeek partitions its input: every input record appears in
\* exactly one returned week, the monday of that week is getMonday of the
\* record's date and its sunday is monday + 6 days, no two returned weeks
\* share a monday, and no returned week is empty.
C10_Partition ==
    /\ \A i \in 1..Len(days) :
          /\ Cardinality(PlacesOf(days[i])) = 1
          /\ \A p \in PlacesOf(days[i]) : weeks[p[1]].monday = getMonday(days[i].date)
    /\ \A w \in 1..Len(weeks) :
          /\ CalendarDay(weeks[w].sunday) = CalendarDay(weeks[w].monday) + 6
          /\ Len(weeks[w].days) > 0
          /\ \A j \in 1..Len(weeks[w].days) :
                \E i \in 1..Len(days) : days[i] = weeks[w].days[j]
    /\ \A w1, w2 \in 1..Len(weeks) : w1 # w2 => weeks[w1].monday # weeks[w2].monday

\* The dates of a week's member records, as calendar days.
MemberDay(w, j) == CalendarDay(weeks[w].days[j].date)

\* C11: in the result of groupByWorkWeek the records inside each week are in
\* ascending order of date and the weeks are in descending order of Monday
\* date, most recent week first, the order of the date strings being the
\* chronological order.
C11_SortedChronologically ==
    /\ \A w \in 1..Len(weeks) : \A j, k \in 1..Len(weeks[w].days) :
          j < k => MemberDay(w, j) < MemberDay(w, k)
    /\ \A w1, w2 \in 1..Len(weeks) :
          w1 < w2 => CalendarDay(weeks[w1].monday) > CalendarDay(weeks[w2].monday)

\* The part of C11 that is about the strings alone: the code's order.
C11_SortedAsStrings ==
    /\ \A w \in 1..Len(weeks) : \A j, k \in 1..Len(weeks[w].days) :
          j < k => localeCompare(weeks[w].days[j].date, weeks[w].days[k].date) < 0
    /\ \A w1, w2 \in 1..Len(weeks) :
          w1 < w2 => localeCompare(weeks[w1].monday, weeks[w2].monday) > 0

\* The sum of one totals field over the member records of week w.
MemberSum(w, field) ==
    SumSet(1..Len(weeks[w].days),
           [j \in 1..Len(weeks[w].days) |-> weeks[w].days[j][field]])

TotalsFields ==
    { "totalMinutes", "totalHours", "prelimWithBbi", "prelimWithoutBbi",
      "loading625", "totalBillings" }

\* The part of C12 about the sums: every totals field of a week is the sum of
\* that field over the week's member records.
C12_FieldSums ==
    \A w \in 1..Len(weeks) : \A field \in TotalsFields :
        weeks[w][field] = MemberSum(w, field)

\* C12: every week carries, for each of the six totals fields, the plain sum
\* of that field over its member records, and two records dated in the same
\* Monday-to-Sunday week are members of one week.
C12_WeekSumsAndSameWeek ==
    /\ C12_FieldSums
    /\ \A i, j \in 1..Len(days) :
          CalendarWeek(CalendarDay(days[i].date)) = CalendarWeek(CalendarDay(days[j].date))
              => \E w \in 1..Len(weeks) :
                    /\ \E k \in 1..Len(weeks[w].days) : weeks[w].days[k] = days[i]
                    /\ \E k \in 1..Len(weeks[w].days) : weeks[w].days[k] = days[j]

\* The documented example of C12: records dated 2026-02-09 and 2026-02-13
\* are members of one week, the week of Monday 2026-02-09.
C12_ExampleOneWeek ==
    \A i, j \in 1..Len(days) :
        (days[i].date = IsoString(2026, 2, 9) /\ days[j].date = IsoString(2026, 2, 13))
            => \E w \in 1..Len(weeks) :
                  /\ weeks[w].monday = IsoString(2026, 2, 9)
                  /\ \E k \in 1..Len(weeks[w].days) : weeks[w].days[k] = days[i]
                  /\ \E k \in 1..Len(weeks[w].days) : weeks[w].days[k] = days[j]

(***************************************************************************)
(* The day store: tables daily_totals and daily_line_items, and the routes *)
(* POST /api/days and DELETE /api/days/:id.                                *)
(*                                                                         *)
(* A handler runs without interruption up to each await; the statement it  *)
(* awaits is executed by the database as one step, and the steps of the    *)
(* requests of different clients interleave.  A JSON number of a request   *)
(* body is a pair <<n, d>> standing for n/d (d > 0).  The createdAt time     *)
(* stamp of a day row, new Date().toISOString(), is the reading of the     *)
(* clock in ticks.                                                         *)
(***************************************************************************)
\* z.number().int()
IsInteger(v) == v[1] % v[2] = 0

\* /^\d{4}-\d{2}-\d{2}$/ tested on s
MatchesDateRegex(s) ==
    /\ Len(s) = 10
    /\ \A i \in 1..Len(s) :
          IF i \in {5, 8} THEN s[i] = "-"
          ELSE \E k \in 1..Len(DigitChars) : DigitChars[k] = s[i]

\* z.record(z.string(), z.number().int()): the lower bound left out.
CountsAcceptedAnyInteger(cnts) == \A k \in DOMAIN cnts : IsInteger(cnts[k])

\* z.record(z.string(), z.number().int().min(0))
CountsAccepted(cnts) == \A k \in DOMAIN cnts : IsInteger(cnts[k]) /\ cnts[k][1] >= 0

\* saveDaySchema.safeParse(req.body).success
saveDaySchemaAccepts(date, cnts) == MatchesDateRegex(date) /\ CountsAccepted(cnts)

\* parsed.data.counts: the accepted numbers as integers.
ParsedCounts(cnts) == [k \in DOMAIN cnts |-> cnts[k][1] \div cnts[k][2]]

\* parseInt(s) for a string without sign and white space: the number its
\* leading digits write, NaN when it does not begin with a digit.
RECURSIVE LeadingDigits(_)
LeadingDigits(s) ==
    IF s = <<>> \/ ~(\E k \in 1..Len(DigitChars) : DigitChars[k] = s[1]) THEN <<>>
    ELSE <<s[1]>> \o LeadingDigits(Tail(s))

parseInt(s) ==
    IF LeadingDigits(s) = <<>> THEN [isNaN |-> TRUE, value |-> 0]
    ELSE [isNaN |-> FALSE, value |-> ToNumber(LeadingDigits(s))]

\* The dates of the explored save requests the schema accepts: the two dates
\* of the documented grouping example.
BodyDates ==
    { <<"2", "0", "2", "6", "-", "0", "2", "-", "0", "9">>,
      <<"2", "0", "2", "6", "-", "0", "2", "-", "1", "3">> }

\* A date written without leading zeros.
ShortDate == <<"2", "0", "2", "6", "-", "2", "-", "9">>

\* The count maps of the explored save requests the schema accepts.
BodyCounts ==
    { [k \in {"consult_a_90020"} |-> <<2, 1>>],
      [k \in {"consult_e_90054", "urgent_unsociable_599"} |->
          IF k = "consult_e_90054" THEN <<1, 1>> ELSE <<0, 1>>] }

\* Count maps with the count -1 and with the count 3/2.
RefusedCounts ==
    { [k \in {"consult_a_90020"} |-> <<-1, 1>>],
      [k \in {"consult_a_90020"} |-> <<3, 2>>] }

\* The bodies of the explored save requests: every accepted date with every
\* accepted count map, and one body for each way of being refused.
Bodies ==
    [date : BodyDates, counts : BodyCounts]
        \cup [date : {ShortDate}, counts : { [k \in {"consult_a_90020"} |-> <<2, 1>>] }]
        \cup [date : { <<"2", "0", "2", "6", "-", "0", "2", "-", "0", "9">> }, counts : RefusedCounts]

\* The :id parameters of the explored delete requests: ids and a word.
IdParams == { <<"1">>, <<"2">>, <<"x">> }

\* The :id parameters of the explored export requests.
CsvIdParams == { <<"1">>, <<"x">> }

\* The row createDay stores under `id`: the date, the six totals of the
\* counts and the time stamp the handler took.
DayRow(id, date, cm, createdAt) ==
    LET t == computeTotals(cm)
    IN [id               |-> id,
        date             |-> date,
        totalBillings    |-> t.totalBillings,
        prelimWithBbi    |-> t.prelimWithBbi,
        prelimWithoutBbi |-> t.prelimWithoutBbi,
        loading625       |-> t.loading625,
        totalMinutes     |-> t.totalMinutes,
        totalHours       |-> t.totalHours,
        createdAt        |-> createdAt]

\* db.select().from(dailyTotals).where(eq(dailyTotals.date, date)): no row.
getDayByDateBlind(date) == {}

\* db.select().from(dailyTotals).where(eq(dailyTotals.date, date))
getDayByDate(date) == { d \in dailyTotals : d.date = date }

\* db.select().from(dailyTotals).where(eq(dailyTotals.id, id))
getDay(id) == { d \in dailyTotals : d.id = id }

\* daily_totals without the unique constraint on date.
DateTakenUnchecked(date) == FALSE

\* The unique constraint on daily_totals.date refuses an insert of `date`.
DateTaken(date) == \E d \in dailyTotals : d.date = date

\* A delete that leaves the row of the day in daily_totals.
DaysAfterDeleteKept(id) == dailyTotals

\* db.delete(dailyTotals).where(eq(dailyTotals.id, id)): the rows that stay
\* in daily_totals.
DaysAfterDelete(id) == { d \in dailyTotals : d.id # id }

\* The rows that stay in daily_line_items without ON DELETE CASCADE.
RowsAfterDeleteNoCascade(id) == dailyLineItems

\* The rows that stay in daily_line_items when day `id` is deleted: the
\* foreign key daily_total_id deletes the rows of the day with it.
RowsAfterDelete(id) == { r \in dailyLineItems : r.dailyTotalId # id }

\* LINE_ITEMS.map(item => ({dailyTotalId: day.id, ..., count: counts[item.key] || 0}))
\* with the ids the sequence of daily_line_items gives from firstId on.
LineItemRows(dayId, cm, firstId) ==
    { [id             |-> firstId + i - 1,
       dailyTotalId   |-> dayId,
       itemKey        |-> LINE_ITEMS[i].key,
       itemLabel      |-> LINE_ITEMS[i].label,
       minutesPerItem |-> LINE_ITEMS[i].minutes,
       baseAmount     |-> LINE_ITEMS[i].baseAmount,
       bbiAmount      |-> LINE_ITEMS[i].bbiAmount,
       count          |-> CountOrZero(cm, LINE_ITEMS[i].key)] : i \in 1..Len(LINE_ITEMS) }

\* An insert that also writes its time stamp on the rows already stored.
RowsAfterInsertRestamped(day) ==
    { [d EXCEPT !.createdAt = day.createdAt] : d \in dailyTotals } \cup { day }

\* db.insert(dailyTotals).values(day): the rows of daily_totals afterwards.
RowsAfterInsert(day) == dailyTotals \cup { day }

\* res.status(status).json(...): the request of client c is answered, and
\* its handler drops the parsed counts and the time stamp.
Answer(c, status) ==
    req' = [req EXCEPT ![c].pc = "done", ![c].status = status, ![c].counts = <<>>,
                       ![c].createdAt = 0]

\* The server takes a new request, and client c is the first whose previous
\* request, if any, is answered.
Accepts(c) ==
    /\ issued < MaxRequests
    /\ req[c].pc = "done"
    /\ \A b \in Clients : b < c => req[b].pc # "done"

\* POST /api/days arrives: safeParse, then 400 or the call of getDayByDate.
PostDays(c, date, cnts) ==
    /\ Accepts(c)
    /\ issued' = issued + 1
    /\ req' = [req EXCEPT ![c] =
                  [IdleRequest EXCEPT !.op = "post", !.date = date, !.counts = cnts,
                      !.pc = IF saveDaySchemaAccepts(date, cnts) THEN "getDayByDate" ELSE "done",
                      !.status = IF saveDaySchemaAccepts(date, cnts) THEN 0 ELSE 400]]
    /\ UNCHANGED <<tableVars, serial>>

\* getDayByDate returns: 409 when it found a row, else computeTotals, the
\* reading of the clock for createdAt and the call of createDay.
PostGetDayByDate(c) ==
    /\ req[c].op = "post"
    /\ req[c].pc = "getDayByDate"
    /\ IF getDayByDate(req[c].date) # {}
       THEN Answer(c, 409)
       ELSE req' = [req EXCEPT ![c].pc = "createDay", ![c].createdAt = now]
    /\ UNCHANGED <<tableVars, serial, issued>>

\* createDay returns: the insert took the next id and stored the row, and
\* createLineItems is called; or it threw on the unique constraint, and the
\* catch block answers 500.
PostCreateDay(c) ==
    /\ req[c].op = "post"
    /\ req[c].pc = "createDay"
    /\ serial' = [serial EXCEPT !.dailyTotals = @ + 1]
    /\ IF DateTaken(req[c].date)
       THEN /\ Answer(c, 500)
            /\ UNCHANGED dailyTotals
       ELSE /\ dailyTotals' =
                   RowsAfterInsert(DayRow(serial.dailyTotals, req[c].date,
                                          ParsedCounts(req[c].counts), req[c].createdAt))
            /\ req' = [req EXCEPT ![c].pc = "createLineItems", ![c].id = serial.dailyTotals,
                                    ![c].createdAt = 0]
    /\ UNCHANGED <<dailyLineItems, monthlyBudgets, issued>>

\* createLineItems returns: the rows are stored and the answer is 201; or the
\* insert threw on the foreign key because the day row is gone, and the
\* catch block answers 500.
PostCreateLineItems(c) ==
    /\ req[c].op = "post"
    /\ req[c].pc = "createLineItems"
    /\ serial' = [serial EXCEPT !.dailyLineItems = @ + Len(LINE_ITEMS)]
    /\ IF getDay(req[c].id) # {}
       THEN /\ dailyLineItems' = dailyLineItems \cup
                   LineItemRows(req[c].id, ParsedCounts(req[c].counts), serial.dailyLineItems)
            /\ Answer(c, 201)
       ELSE /\ Answer(c, 500)
            /\ UNCHANGED dailyLineItems
    /\ UNCHANGED <<dailyTotals, monthlyBudgets, issued>>

\* DELETE /api/days/:id arrives: parseInt, then 400 or the call of deleteDay.
DeleteDays(c, param) ==
    /\ Accepts(c)
    /\ issued' = issued + 1
    /\ req' = [req EXCEPT ![c] =
                  [IdleRequest EXCEPT !.op = "delete", !.param = param,
                      !.id = parseInt(param).value,
                      !.pc = IF parseInt(param).isNaN THEN "done" ELSE "deleteDay",
                      !.status = IF parseInt(param).isNaN THEN 400 ELSE 0]]
    /\ UNCHANGED <<tableVars, serial>>

\* result.length > 0 answered 200 whatever the delete returned.
DeletedStatusAlwaysOk(id) == 200

\* The answer after deleteDay(id): 200 when a row was deleted, else 404.
DeletedStatus(id) == IF getDay(id) # {} THEN 200 ELSE 404

\* deleteDay returns: the row with the id, if any, is deleted with its line
\* items.
DeleteDay(c) ==
    /\ req[c].op = "delete"
    /\ req[c].pc = "deleteDay"
    /\ dailyTotals' = DaysAfterDelete(req[c].id)
    /\ dailyLineItems' = RowsAfterDelete(req[c].id)
    /\ Answer(c, DeletedStatus(req[c].id))
    /\ UNCHANGED <<monthlyBudgets, serial, issued>>

(***************************************************************************)
(* The CSV exports GET /api/days/:id/csv and GET /api/days/export/all.     *)
(* A CSV line is a record of its cells; the header line, which is the same *)
(* in every answer, is left out.                                           *)
(***************************************************************************)
\* x.toFixed(2) for an amount x >= 0: x rounded to whole cents.
ToFixed2(x) == ((x + 8) \div 16) * 16

RECURSIVE DaysByDateDesc(_)
\* The rows of dayRows in descending order of date.
DaysByDateDesc(dayRows) ==
    IF dayRows = {} THEN <<>>
    ELSE LET top == CHOOSE d \in dayRows :
                        \A e \in dayRows : localeCompare(d.date, e.date) >= 0
         IN <<top>> \o DaysByDateDesc(dayRows \ {top})

\* db.select().from(dailyTotals).orderBy(desc(dailyTotals.date))
getDays == DaysByDateDesc(dailyTotals)

\* The catalog items in ascending order of their labels, as the database
\* orders the text of item_label by character codes.
LabelOrder == <<2, 7, 3, 8, 9, 4, 10, 5, 11, 6, 1, 13, 17, 16, 18, 15, 14, 12>>

RECURSIVE RowsInLabelOrder(_, _)
\* The rows of `items` whose labels are at the positions n.. of LabelOrder.
RowsInLabelOrder(items, n) ==
    IF n > Len(LabelOrder) THEN <<>>
    ELSE LET match == { r \in items : r.itemLabel = LINE_ITEMS[LabelOrder[n]].label }
         IN (IF match = {} THEN <<>> ELSE <<CHOOSE r \in match : TRUE>>)
                \o RowsInLabelOrder(items, n + 1)

\* db.select().from(dailyLineItems).where(eq(dailyLineItems.dailyTotalId, id))
\*   .orderBy(dailyLineItems.itemLabel)
getLineItems(dailyTotalId) ==
    RowsInLabelOrder({ r \in dailyLineItems : r.dailyTotalId = dailyTotalId }, 1)

\* Every item gets a line, whatever its count.
KeepsRowAlways(item) == TRUE

\* if (item.count > 0)
KeepsRow(item) == item.count > 0

\* `${monday} to ${sunday}` for each date a stored day can have, computed
\* once.
WeekLabels ==
    [date \in BodyDates |->
        getMonday(date) \o <<" ", "t", "o", " ">> \o getSunday(getMonday(date))]

\* const weekLabel = `${monday} to ${sunday}`
WeekLabel(date) == WeekLabels[date]

\* The line of one item in the export of one day.
DayCsvRow(day, item) ==
    [kind           |-> "data",
     date           |-> day.date,
     itemLabel      |-> item.itemLabel,
     minutesPerItem |-> item.minutesPerItem,
     baseAmount     |-> ToFixed2(item.baseAmount),
     bbiAmount      |-> ToFixed2(item.bbiAmount),
     count          |-> item.count,
     subtotal       |-> ToFixed2(item.count * (item.baseAmount + item.bbiAmount))]

\* The line of one item in the export of all days.
AllCsvRow(day, item, weekLabel) ==
    [kind             |-> "data",
     date             |-> day.date,
     weekLabel        |-> weekLabel,
     itemLabel        |-> item.itemLabel,
     minutesPerItem   |-> item.minutesPerItem,
     baseAmount       |-> ToFixed2(item.baseAmount),
     bbiAmount        |-> ToFixed2(item.bbiAmount),
     count            |-> item.count,
     subtotal         |-> ToFixed2(item.count * (item.baseAmount + item.bbiAmount)),
     totalMinutes     |-> day.totalMinutes,
     totalHours       |-> day.totalHours,
     prelimWithBbi    |-> ToFixed2(day.prelimWithBbi),
     prelimWithoutBbi |-> ToFixed2(day.prelimWithoutBbi),
     loading625       |-> ToFixed2(day.loading625),
     totalBillings    |-> ToFixed2(day.totalBillings)]

\* The lines from the blank line to "Total Billings" of the export of a day.
SummaryRows(day) ==
    << [kind             |-> "summary",
        totalMinutes     |-> day.totalMinutes,
        totalHours       |-> day.totalHours,
        prelimWithBbi    |-> ToFixed2(day.prelimWithBbi),
        prelimWithoutBbi |-> ToFixed2(day.prelimWithoutBbi),
        loading625       |-> ToFixed2(day.loading625),
        totalBillings    |-> ToFixed2(day.totalBillings)] >>

RECURSIVE DataRows(_, _, _, _, _)
\* for (const item of items) { if (item.count > 0) rows.push(...) } from
\* position n of items on; `all` tells the export of all days, whose lines
\* carry weekLabel.
DataRows(day, items, n, all, weekLabel) ==
    IF n > Len(items) THEN <<>>
    ELSE (IF KeepsRow(items[n])
          THEN <<IF all THEN AllCsvRow(day, items[n], weekLabel) ELSE DayCsvRow(day, items[n])>>
          ELSE <<>>)
             \o DataRows(day, items, n + 1, all, weekLabel)

\* GET /api/days/:id/csv arrives: parseInt, then 400 or the call of getDay.
GetDayCsv(c, param) ==
    /\ Accepts(c)
    /\ issued' = issued + 1
    /\ req' = [req EXCEPT ![c] =
                  [IdleRequest EXCEPT !.op = "csv", !.param = param,
                      !.id = parseInt(param).value,
                      !.pc = IF parseInt(param).isNaN THEN "done" ELSE "getDay",
                      !.status = IF parseInt(param).isNaN THEN 400 ELSE 0]]
    /\ UNCHANGED <<tableVars, serial>>

\* getDay returns: 404 without a row, else the call of getLineItems.
CsvGetDay(c) ==
    /\ req[c].op = "csv"
    /\ req[c].pc = "getDay"
    /\ IF getDay(req[c].id) = {}
       THEN Answer(c, 404)
       ELSE req' = [req EXCEPT ![c].pc = "getLineItems",
                               ![c].days = <<CHOOSE d \in getDay(req[c].id) : TRUE>>]
    /\ UNCHANGED <<tableVars, serial, issued>>

\* getLineItems returns: the lines of the items and the summary are sent.
CsvGetLineItems(c) ==
    /\ req[c].op = "csv"
    /\ req[c].pc = "getLineItems"
    /\ req' = [req EXCEPT
                  ![c].pc = "done",
                  ![c].status = 200,
                  ![c].days = <<>>,
                  ![c].rows = DataRows(req[c].days[1], getLineItems(req[c].id), 1, FALSE, <<>>)
                                  \o SummaryRows(req[c].days[1])]
    /\ UNCHANGED <<tableVars, serial, issued>>

\* GET /api/days/export/all arrives: getDays is called.
GetExportAll(c) ==
    /\ Accepts(c)
    /\ issued' = issued + 1
    /\ req' = [req EXCEPT ![c] = [IdleRequest EXCEPT !.op = "exportAll", !.pc = "getDays"]]
    /\ UNCHANGED <<tableVars, serial>>

\* getDays returns: getLineItems is called for the first day, or the answer
\* is sent at once when there is no day.
ExportGetDays(c) ==
    /\ req[c].op = "exportAll"
    /\ req[c].pc = "getDays"
    /\ req' = [req EXCEPT
                  ![c].days = getDays,
                  ![c].pc = IF getDays = <<>> THEN "done" ELSE "getLineItems",
                  ![c].status = IF getDays = <<>> THEN 200 ELSE 0]
    /\ UNCHANGED <<tableVars, serial, issued>>

\* getLineItems returns for the day in turn: its lines are pushed, and
\* getLineItems is called for the next day or the answer is sent.
ExportGetLineItems(c) ==
    /\ req[c].op = "exportAll"
    /\ req[c].pc = "getLineItems"
    /\ req' = [req EXCEPT
                  ![c].rows = @ \o DataRows(req[c].days[1], getLineItems(req[c].days[1].id), 1, TRUE,
                                            WeekLabel(req[c].days[1].date)),
                  ![c].days = Tail(@),
                  ![c].pc = IF Len(req[c].days) = 1 THEN "done" ELSE "getLineItems",
                  ![c].status = IF Len(req[c].days) = 1 THEN 200 ELSE 0]
    /\ UNCHANGED <<tableVars, serial, issued>>

\* The frame of the store's steps: the other parts of the program idle.
StoreFrame == UNCHANGED <<totalsVars, dateVars, groupVars, pageVars, calcVars, now>>

InitStore ==
    /\ InitStoreIdle
    /\ InitPagesIdle
    /\ counts = EmptyMap
    /\ totals = FinishTotals(ZeroAcc)
    /\ firstTotals = FinishTotals(ZeroAcc)
    /\ calls = 1
    /\ dateStr = <<>>
    /\ dateWeek = <<>>
    /\ otherStr = <<>>
    /\ otherWeek = <<>>
    /\ days = <<>>
    /\ weeks = <<>>

NextStore ==
    \/ \E c \in Clients, b \in Bodies : PostDays(c, b.date, b.counts) /\ StoreFrame
    \/ \E c \in Clients : PostGetDayByDate(c) /\ StoreFrame
    \/ \E c \in Clients : PostCreateDay(c) /\ StoreFrame
    \/ \E c \in Clients : PostCreateLineItems(c) /\ StoreFrame
    \/ \E c \in Clients, param \in IdParams : DeleteDays(c, param) /\ StoreFrame
    \/ \E c \in Clients : DeleteDay(c) /\ StoreFrame
    \/ \E c \in Clients, param \in CsvIdParams : GetDayCsv(c, param) /\ StoreFrame
    \/ \E c \in Clients : CsvGetDay(c) /\ StoreFrame
    \/ \E c \in Clients : CsvGetLineItems(c) /\ StoreFrame
    \/ \E c \in Clients : GetExportAll(c) /\ StoreFrame
    \/ \E c \in Clients : ExportGetDays(c) /\ StoreFrame
    \/ \E c \in Clients : ExportGetLineItems(c) /\ StoreFrame

SpecStore == InitStore /\ [][NextStore]_vars

(***************************************************************************)
(* Properties of the day store.                                            *)
(***************************************************************************)
\* Client c takes the step that follows the await of `pc` in handler `op`.
StepsFrom(c, op, pc) == req[c].op = op /\ req[c].pc = pc /\ req'[c] # req[c]

\* Client c receives a new request of kind `op`.
Receives(c, op) == req[c].pc = "done" /\ issued' = issued + 1 /\ req'[c] # req[c] /\ req'[c].op = op

\* C13: a save whose date matches an existing day record is answered 409 and
\* leaves the store unchanged: no day record and no line-item row is created
\* and the existing record is not overwritten.
C13_ExistingDateRefused ==
    [][\A c \in Clients :
          (StepsFrom(c, "post", "getDayByDate") /\ \E d \in dailyTotals : d.date = req[c].date)
              => /\ req'[c].pc = "done"
                 /\ req'[c].status = 409
                 /\ dailyTotals' = dailyTotals
                 /\ dailyLineItems' = dailyLineItems]_vars

C13_Witness ==
    \E c \in Clients :
        /\ req[c].op = "post"
        /\ req[c].status = 409
        /\ \E d \in dailyTotals : d.date = req[c].date

\* C14: after any interleaving of save and delete requests the store never
\* holds two day records with the same date.
C14_OneRecordPerDate ==
    \A d1, d2 \in dailyTotals : d1.date = d2.date => d1 = d2

\* Two saves of one date both passed the existence check; one has inserted
\* its row and the other was refused by the insert.
C14_Witness ==
    \E c1, c2 \in Clients :
        /\ c1 # c2
        /\ req[c1].op = "post" /\ req[c2].op = "post"
        /\ req[c1].date = req[c2].date
        /\ req[c1].pc = "createLineItems"
        /\ req[c2].status = 500

NoOrphanRows == \A r \in dailyLineItems : \E d \in dailyTotals : d.id = r.dailyTotalId

\* C15: deleting a day record deletes all its line-item rows and no row of
\* another day; after any interleaving of saves and deletes every line-item
\* row references a day record that exists.
C15_DeleteCascades ==
    [][/\ NoOrphanRows'
       /\ \A c \in Clients :
             StepsFrom(c, "delete", "deleteDay")
                 => dailyLineItems' = { r \in dailyLineItems : r.dailyTotalId # req[c].id }]_vars

\* A save was completed and its day, with the rows, was deleted afterwards.
C15_Witness ==
    \E c1, c2 \in Clients :
        /\ req[c1].op = "post" /\ req[c1].status = 201
        /\ req[c2].op = "delete" /\ req[c2].status = 200
        /\ req[c2].id = req[c1].id

IsYyyyMmDd(s) ==
    LET parts == Split(s)
        AllDigits(p) == \A i \in 1..Len(p) : p[i] \in { DigitChars[k] : k \in 1..Len(DigitChars) }
    IN /\ Len(parts) = 3
       /\ Len(parts[1]) = 4 /\ Len(parts[2]) = 2 /\ Len(parts[3]) = 2
       /\ \A n \in 1..3 : AllDigits(parts[n])

\* The count map holds a negative or a non-integer number.
HasBadCount(cnts) ==
    \E k \in DOMAIN cnts : cnts[k][1] < 0 \/ (cnts[k][1] \div cnts[k][2]) * cnts[k][2] # cnts[k][1]

BadBody(r) == ~IsYyyyMmDd(r.date) \/ HasBadCount(r.counts)

\* C17: a save whose date is not YYYY-MM-DD or whose counts hold a negative
\* or non-integer value is answered 400 when it arrives, before the
\* existence check, the totals computation and any write, so the store is
\* unchanged; every persisted line-item row has count >= 0.
C17_BadRequestRejected ==
    [][/\ \A c \in Clients :
             (Receives(c, "post") /\ BadBody(req'[c]))
                 => /\ req'[c].pc = "done"
                    /\ req'[c].status = 400
                    /\ dailyTotals' = dailyTotals
                    /\ dailyLineItems' = dailyLineItems
       /\ \A c \in Clients :
             (req'[c].op = "post" /\ req'[c].status # 400) => ~BadBody(req'[c])
       /\ \A r \in dailyLineItems' : r.count >= 0]_vars

\* Both kinds of bad request were answered, and rows were stored meanwhile.
C17_Witness ==
    /\ \E c \in Clients :
          req[c].op = "post" /\ req[c].status = 400 /\ ~IsYyyyMmDd(req[c].date)
    /\ \E c \in Clients :
          req[c].op = "post" /\ req[c].status = 400 /\ HasBadCount(req[c].counts)
    /\ dailyLineItems # {}

\* The data lines the step of client c adds to its answer.
NewDataRows(c) ==
    SelectSeq(SubSeq(req'[c].rows, Len(req[c].rows) + 1, Len(req'[c].rows)),
              LAMBDA row : row.kind = "data")

\* The stored line-item rows of the day the export of client c is at.
ItemsOfDayInTurn(c) == { r \in dailyLineItems : r.dailyTotalId = req[c].days[1].id }

\* The lines are one per stored item of the day with count > 0, none for an
\* item with count 0, each with the item's label and count on the day's date
\* and with Subtotal = count * (baseAmount + bbiAmount) of the line.
OneRowPerCountedItem(c) ==
    LET lines == NewDataRows(c)
        items == ItemsOfDayInTurn(c)
    IN /\ Len(lines) = Cardinality({ r \in items : r.count > 0 })
       /\ \A r \in items :
             Cardinality({ j \in 1..Len(lines) : lines[j].itemLabel = r.itemLabel })
                 = IF r.count > 0 THEN 1 ELSE 0
       /\ \A j \in 1..Len(lines) :
             /\ lines[j].date = req[c].days[1].date
             /\ \E r \in items : r.itemLabel = lines[j].itemLabel /\ r.count = lines[j].count
             /\ lines[j].subtotal = lines[j].count * (lines[j].baseAmount + lines[j].bbiAmount)

\* C18: the export of a day and the export of all days hold one data line per
\* line item of the day with count > 0 and none for an item with count 0,
\* each line's Subtotal is count * (baseAmount + bbiAmount) of the line, and
\* every line of a day in the export of all days carries the week label
\* "<getMonday(date)> to <getSunday(getMonday(date))>".
C18_ExportRows ==
    [][\A c \in Clients :
          /\ StepsFrom(c, "csv", "getLineItems") => OneRowPerCountedItem(c)
          /\ StepsFrom(c, "exportAll", "getLineItems") =>
                /\ OneRowPerCountedItem(c)
                /\ LET monday == getMonday(req[c].days[1].date)
                       label == monday \o <<" ", "t", "o", " ">> \o getSunday(monday)
                   IN \A j \in 1..Len(NewDataRows(c)) : NewDataRows(c)[j].weekLabel = label]_vars

\* Both exports were answered with data lines of a stored day.
C18_Witness ==
    /\ \E c \in Clients :
          /\ req[c].op = "csv" /\ req[c].status = 200
          /\ \E j \in 1..Len(req[c].rows) : req[c].rows[j].kind = "data"
    /\ \E c \in Clients :
          /\ req[c].op = "exportAll" /\ req[c].status = 200
          /\ \E j \in 1..Len(req[c].rows) : req[c].rows[j].kind = "data"

(***************************************************************************)
(* Table monthly_budgets and DatabaseStorage.setBudget.  The calls of      *)
(* different clients interleave at the awaits of setBudget.                *)
(***************************************************************************)
\* The months and the amounts of the explored setBudget calls.
BudgetMonths == { <<"2", "0", "2", "6", "-", "0", "2">>, <<"2", "0", "2", "6", "-", "0", "3">> }

BudgetAmounts == { Cents(0), Cents(100000), Cents(250050) }

\* db.select().from(monthlyBudgets).where(eq(monthlyBudgets.month, month))
getBudget(month) == { b \in monthlyBudgets : b.month = month }

\* .set({}) : the update leaves the row as it was.
UpdatedRowStale(b, amount) == b

\* .set({ budget: budget.budget }) on the row b
UpdatedRow(b, amount) == [b EXCEPT !.budget = amount]

\* setBudget(budget) is called: getBudget is called.
SetBudget(c, month, amount) ==
    /\ Accepts(c)
    /\ issued' = issued + 1
    /\ req' = [req EXCEPT ![c] =
                  [IdleRequest EXCEPT !.op = "setBudget", !.pc = "getBudget",
                                      !.month = month, !.budget = amount]]
    /\ UNCHANGED <<tableVars, serial>>

\* getBudget returns: the update is called when it found a row, else the
\* insert.
BudgetGetBudget(c) ==
    /\ req[c].op = "setBudget"
    /\ req[c].pc = "getBudget"
    /\ req' = [req EXCEPT ![c].pc = IF getBudget(req[c].month) # {} THEN "update" ELSE "insert"]
    /\ UNCHANGED <<tableVars, serial, issued>>

\* The update returns: the rows of the month carry the new amount.
BudgetUpdate(c) ==
    /\ req[c].op = "setBudget"
    /\ req[c].pc = "update"
    /\ monthlyBudgets' =
          { IF b.month = req[c].month THEN UpdatedRow(b, req[c].budget) ELSE b :
                b \in monthlyBudgets }
    /\ req' = [req EXCEPT ![c].pc = "done"]
    /\ UNCHANGED <<dailyTotals, dailyLineItems, serial, issued>>

\* The insert returns with the new row, or it throws on the unique
\* constraint of monthly_budgets.month and setBudget rejects.
BudgetInsert(c) ==
    /\ req[c].op = "setBudget"
    /\ req[c].pc = "insert"
    /\ serial' = [serial EXCEPT !.monthlyBudgets = @ + 1]
    /\ IF getBudget(req[c].month) # {}
       THEN /\ req' = [req EXCEPT ![c].pc = "done", ![c].threw = TRUE]
            /\ UNCHANGED monthlyBudgets
       ELSE /\ monthlyBudgets' = monthlyBudgets \cup
                   { [id |-> serial.monthlyBudgets, month |-> req[c].month, budget |-> req[c].budget] }
            /\ req' = [req EXCEPT ![c].pc = "done"]
    /\ UNCHANGED <<dailyTotals, dailyLineItems, issued>>

NextBudget ==
    \/ \E c \in Clients, month \in BudgetMonths, amount \in BudgetAmounts :
          SetBudget(c, month, amount) /\ StoreFrame
    \/ \E c \in Clients : BudgetGetBudget(c) /\ StoreFrame
    \/ \E c \in Clients : BudgetUpdate(c) /\ StoreFrame
    \/ \E c \in Clients : BudgetInsert(c) /\ StoreFrame

SpecBudget == InitStore /\ [][NextBudget]_vars

\* Client c's setBudget call returns in this step.
Returns(c) ==
    /\ req[c].op = "setBudget"
    /\ req[c].pc \in {"update", "insert"}
    /\ req'[c].pc = "done"
    /\ ~req'[c].threw

\* C19: budgets are upserted by month key: there is at most one budget row
\* per month, and when a setBudget call returns the stored amount of its
\* month is the amount of that call and the budgets of the other months are
\* unchanged.
C19_BudgetUpsert ==
    [][/\ \A b1, b2 \in monthlyBudgets' : b1.month = b2.month => b1 = b2
       /\ \A c \in Clients :
             Returns(c) =>
                 /\ \E b \in monthlyBudgets' : b.month = req[c].month /\ b.budget = req[c].budget
                 /\ { b \in monthlyBudgets' : b.month # req[c].month }
                        = { b \in monthlyBudgets : b.month # req[c].month }]_vars

\* Three calls have returned: two inserted the rows of two months, and the
\* third updated one of them to another amount.
C19_Witness ==
    /\ issued = MaxRequests
    /\ \A c \in Clients : req[c].pc = "done" /\ ~req[c].threw
    /\ Cardinality(monthlyBudgets) = 2
    /\ serial.monthlyBudgets = 3
    /\ \E c \in Clients : \E b \in monthlyBudgets :
          req[c].op = "setBudget" /\ b.month = req[c].month /\ b.budget = req[c].budget /\ b.budget # 0

(***************************************************************************)
(* Dashboard page: buildMonthlySummaries over the data of the queries      *)
(* /api/days and /api/budgets, and the badge rendered for each summary.    *)
(* A budget is <<>> for null and <<amount>> otherwise.  The label of a     *)
(* summary and the text inside a badge are display strings and are left    *)
(* out.                                                                    *)
(***************************************************************************)
\* dateStr.substring(0, 7)
getMonthKey(str) == SubSeq(str, 1, IF Len(str) < 7 THEN Len(str) ELSE 7)

\* The position of the bucket of `month` in monthMap, 0 when it has none.
MonthIndex(monthMap, month) ==
    IF \E i \in 1..Len(monthMap) : monthMap[i].month = month
    THEN CHOOSE i \in 1..Len(monthMap) : monthMap[i].month = month
    ELSE 0

\* if (!monthMap[key]) monthMap[key] = []; monthMap[key].push(day);
PushMonthDay(monthMap, month, day) ==
    LET i == MonthIndex(monthMap, month)
    IN IF i = 0 THEN Append(monthMap, [month |-> month, days |-> <<day>>])
       ELSE [monthMap EXCEPT ![i].days = Append(@, day)]

RECURSIVE BuildMonthMap(_, _, _)
\* for (const day of days) { ... }, from position i on.
BuildMonthMap(dayList, i, monthMap) ==
    IF i > Len(dayList) THEN monthMap
    ELSE BuildMonthMap(dayList, i + 1,
                       PushMonthDay(monthMap, getMonthKey(dayList[i].date), dayList[i]))

RECURSIVE InsertByMonth(_, _)
\* bucket placed behind every element whose key does not sort after its key.
InsertByMonth(sorted, bucket) ==
    IF sorted = <<>> THEN <<bucket>>
    ELSE IF CompareFrom(sorted[Len(sorted)].month, bucket.month, 1) <= 0 THEN Append(sorted, bucket)
    ELSE Append(InsertByMonth(SubSeq(sorted, 1, Len(sorted) - 1), bucket), sorted[Len(sorted)])

RECURSIVE SortByMonth(_)
\* Object.keys(monthMap).sort(): ascending by the code units of the keys.
SortByMonth(monthMap) ==
    IF monthMap = <<>> THEN <<>>
    ELSE InsertByMonth(SortByMonth(SubSeq(monthMap, 1, Len(monthMap) - 1)), monthMap[Len(monthMap)])

\* .reverse()
Reverse(s) == [i \in 1..Len(s) |-> s[Len(s) + 1 - i]]

\* budgetMap[month] || null: a budget of 0 reads as no budget.
BudgetOrNullFalsy(budgetList, month) ==
    LET at == { i \in 1..Len(budgetList) : budgetList[i].month = month }
        last == CHOOSE i \in at : \A j \in at : j <= i
    IN IF at = {} \/ budgetList[last].budget = 0 THEN <<>> ELSE <<budgetList[last].budget>>

\* for (const b of budgets) budgetMap[b.month] = b.budget; budgetMap[month] ?? null
BudgetOrNull(budgetList, month) ==
    LET at == { i \in 1..Len(budgetList) : budgetList[i].month = month }
        last == CHOOSE i \in at : \A j \in at : j <= i
    IN IF at = {} THEN <<>> ELSE <<budgetList[last].budget>>

\* The object pushed onto summaries for one key of monthMap.
MakeSummary(bucket, budgetList) ==
    [month         |-> bucket.month,
     totalBillings |-> ReduceSum(bucket.days, "totalBillings", 1),
     totalMinutes  |-> ReduceSum(bucket.days, "totalMinutes", 1),
     totalHours    |-> ReduceSum(bucket.days, "totalHours", 1),
     prelimWithBbi |-> ReduceSum(bucket.days, "prelimWithBbi", 1),
     loading625    |-> ReduceSum(bucket.days, "loading625", 1),
     dayCount      |-> Len(bucket.days),
     budget        |-> BudgetOrNull(budgetList, bucket.month)]

buildMonthlySummaries(dayList, budgetList) ==
    LET months == Reverse(SortByMonth(BuildMonthMap(dayList, 1, <<>>)))
    IN [i \in 1..Len(months) |-> MakeSummary(months[i], budgetList)]

\* Math.abs(diff)
Abs(x) == IF x < 0 THEN -x ELSE x

\* The data-testid of the badge BudgetVarianceBadge renders; 0.01 is Cents(1).
BudgetVarianceBadge(actual, budget) ==
    LET diff == actual - budget
        isOver == diff > 0
        isExact == Abs(diff) < Cents(1)
    IN IF isExact THEN "badge-on-budget"
       ELSE IF isOver THEN "badge-over-budget" ELSE "badge-under-budget"

\* summary.budget !== null && <BudgetVarianceBadge ... />, for each summary
RenderBadges(summaryList) ==
    [i \in 1..Len(summaryList) |->
        IF summaryList[i].budget = <<>> THEN "none"
        ELSE BudgetVarianceBadge(summaryList[i].totalBillings, summaryList[i].budget[1])]

\* Dates of the day records the dashboard gets: two days of one month, a day
\* of the month after and a day of the year before.
DashDates ==
    { <<"2", "0", "2", "6", "-", "0", "2", "-", "0", "9">>,
      <<"2", "0", "2", "6", "-", "0", "2", "-", "1", "3">>,
      <<"2", "0", "2", "6", "-", "0", "3", "-", "0", "2">>,
      <<"2", "0", "2", "5", "-", "1", "2", "-", "3", "1">> }

\* Months of the budget rows: two of the months of DashDates.
DashMonths == { <<"2", "0", "2", "6", "-", "0", "2">>, <<"2", "0", "2", "6", "-", "0", "3">> }

\* totalBillings of a day saved with two items consult_a_90020.
OneDayBillings == FinishTotals(SumLineItems([k \in {"consult_a_90020"} |-> 2], 1, ZeroAcc)).totalBillings

\* Budget amounts: 0, the billings of one day, and amounts just under 0.01
\* and exactly 0.01 away from them.
DashAmounts ==
    { 0, OneDayBillings, OneDayBillings + Cents(1) - 1, OneDayBillings + Cents(1),
      OneDayBillings - Cents(1) }

\* The rows of budgetList with the row of `month` set to `amount`, the row
\* being added in front when the month had none.
UpsertBudget(budgetList, month, amount) ==
    IF \E i \in 1..Len(budgetList) : budgetList[i].month = month
    THEN [i \in 1..Len(budgetList) |->
             IF budgetList[i].month = month THEN [budgetList[i] EXCEPT !.budget = amount]
             ELSE budgetList[i]]
    ELSE <<[id |-> Len(budgetList) + 1, month |-> month, budget |-> amount]>> \o budgetList

\* The query /api/days brings one more day record, and the page renders.
DaysArrive(date, cm) ==
    /\ Len(days) < MaxDays
    /\ \A i \in 1..Len(days) : days[i].date # date
    /\ days' = Append(days, DayRecord(Len(days) + 1, date, cm))
    /\ summaries' = buildMonthlySummaries(days', budgets)
    /\ badges' = RenderBadges(summaries')
    /\ UNCHANGED <<totalsVars, dateVars, weeks, storeVars, budgets, calcVars>>

\* The query /api/budgets brings a budget set for a month, and the page
\* renders.
BudgetsArrive(month, amount) ==
    /\ budgets' = UpsertBudget(budgets, month, amount)
    /\ budgets' # budgets
    /\ summaries' = buildMonthlySummaries(days, budgets')
    /\ badges' = RenderBadges(summaries')
    /\ UNCHANGED <<totalsVars, dateVars, groupVars, storeVars, calcVars>>

InitDashboard == InitStore

NextDashboard ==
    \/ \E date \in DashDates, cm \in RecordCounts : DaysArrive(date, cm)
    \/ \E month \in DashMonths, amount \in DashAmounts : BudgetsArrive(month, amount)

SpecDashboard == InitDashboard /\ [][NextDashboard]_vars

\* The YYYY-MM prefix of a date, as the number of its month since year 0.
MonthNumber(str) == ToNumber(SubSeq(str, 1, 4)) * 12 + ToNumber(SubSeq(str, 6, 7))

\* The positions in days of the records dated in the month of summary s.
DaysOfMonth(s) == { i \in 1..Len(days) : SubSeq(days[i].date, 1, 7) = s.month }

\* C20: the monthly summaries bucket the days by the YYYY-MM prefix of their
\* dates, are in descending order of month key, and join the budget by month
\* key: a month without a budget row has budget null; a month with a budget
\* is on-budget when |actual - budget| < 0.01, otherwise over when
\* actual > budget and under when actual < budget.
C20_MonthlySummaries ==
    /\ \A i \in 1..Len(days) :
          Cardinality({ k \in 1..Len(summaries) : summaries[k].month = SubSeq(days[i].date, 1, 7) }) = 1
    /\ \A k \in 1..Len(summaries) :
          /\ DaysOfMonth(summaries[k]) # {}
          /\ summaries[k].dayCount = Cardinality(DaysOfMonth(summaries[k]))
          /\ summaries[k].totalBillings
                = SumSet(DaysOfMonth(summaries[k]), [i \in 1..Len(days) |-> days[i].totalBillings])
    /\ \A k1, k2 \in 1..Len(summaries) :
          k1 < k2 => MonthNumber(summaries[k1].month) > MonthNumber(summaries[k2].month)
    /\ Len(badges) = Len(summaries)
    /\ \A k \in 1..Len(summaries) :
          LET rows == { n \in 1..Len(budgets) : budgets[n].month = summaries[k].month }
              actual == summaries[k].totalBillings
          IN IF rows = {}
             THEN summaries[k].budget = <<>> /\ badges[k] = "none"
             ELSE \A n \in rows :
                     /\ summaries[k].budget = <<budgets[n].budget>>
                     /\ badges[k] =
                           IF actual - budgets[n].budget < Cents(1) /\ budgets[n].budget - actual < Cents(1)
                           THEN "badge-on-budget"
                           ELSE IF actual > budgets[n].budget THEN "badge-over-budget"
                           ELSE "badge-under-budget"

\* Summaries of three months: one without a budget row, one on budget with
\* an amount that differs from the billings, and one under budget by exactly
\* 0.01.
C20_Witness ==
    /\ \E k \in 1..Len(summaries) : summaries[k].budget = <<>>
    /\ \E k \in 1..Len(summaries) :
          /\ badges[k] = "badge-on-budget"
          /\ summaries[k].budget # <<summaries[k].totalBillings>>
    /\ \E k \in 1..Len(summaries) :
          /\ badges[k] = "badge-under-budget"
          /\ summaries[k].budget = <<summaries[k].totalBillings + Cents(1)>>

(***************************************************************************)
(* Properties of saves that race, fail or follow a delete.                 *)
(***************************************************************************)
\* C21: a save that is refused because a day record with its date exists is
\* answered 409, at its existence check and also at its insert when the
\* other record was inserted after the check; it is never answered 500.
C21_DuplicateAnsweredConflict ==
    [][\A c \in Clients :
          ((StepsFrom(c, "post", "getDayByDate") \/ StepsFrom(c, "post", "createDay"))
              /\ \E d \in dailyTotals : d.date = req[c].date)
              => req'[c].pc = "done" /\ req'[c].status = 409]_vars

(***************************************************************************)
(* The server with all its operations on day records, used by one person:  *)
(* a request arrives when the one before is answered.  Saves and deletes,  *)
(* the reads GET /api/days and GET /api/days/:id, the export of all days,  *)
(* setBudget, a clock that advances, and a line-item insert that fails.    *)
(***************************************************************************)
\* The clock advances by one tick.
Tick ==
    /\ now < MaxTicks
    /\ now' = now + 1
    /\ UNCHANGED <<totalsVars, dateVars, groupVars, pageVars, calcVars,
                   tableVars, serial, req, issued>>

\* createLineItems rejects although the day row is stored (the database
\* refuses the statement or the connection fails): the catch block answers
\* 500 and nothing is undone.
PostCreateLineItemsThrows(c) ==
    /\ req[c].op = "post"
    /\ req[c].pc = "createLineItems"
    /\ Answer(c, 500)
    /\ UNCHANGED <<tableVars, serial, issued>>

\* GET /api/days arrives: getDays is called.
GetDays(c) ==
    /\ Accepts(c)
    /\ issued' = issued + 1
    /\ req' = [req EXCEPT ![c] = [IdleRequest EXCEPT !.op = "list", !.pc = "getDays"]]
    /\ UNCHANGED <<tableVars, serial>>

\* getDays returns: res.json(days).
ListGetDays(c) ==
    /\ req[c].op = "list"
    /\ req[c].pc = "getDays"
    /\ req' = [req EXCEPT ![c].pc = "done", ![c].status = 200, ![c].days = getDays]
    /\ UNCHANGED <<tableVars, serial, issued>>

\* GET /api/days/:id arrives: parseInt, then 400 or the call of getDay.
GetDayById(c, param) ==
    /\ Accepts(c)
    /\ issued' = issued + 1
    /\ req' = [req EXCEPT ![c] =
                  [IdleRequest EXCEPT !.op = "detail", !.param = param,
                      !.id = parseInt(param).value,
                      !.pc = IF parseInt(param).isNaN THEN "done" ELSE "getDay",
                      !.status = IF parseInt(param).isNaN THEN 400 ELSE 0]]
    /\ UNCHANGED <<tableVars, serial>>

\* getDay returns: 404 without a row, else the call of getLineItems.
DetailGetDay(c) ==
    /\ req[c].op = "detail"
    /\ req[c].pc = "getDay"
    /\ IF getDay(req[c].id) = {}
       THEN Answer(c, 404)
       ELSE req' = [req EXCEPT ![c].pc = "getLineItems",
                               ![c].days = <<CHOOSE d \in getDay(req[c].id) : TRUE>>]
    /\ UNCHANGED <<tableVars, serial, issued>>

\* getLineItems returns: res.json({ day, items }).
DetailGetLineItems(c) ==
    /\ req[c].op = "detail"
    /\ req[c].pc = "getLineItems"
    /\ req' = [req EXCEPT ![c].pc = "done", ![c].status = 200,
                          ![c].rows = getLineItems(req[c].id)]
    /\ UNCHANGED <<tableVars, serial, issued>>

\* The bodies of the saves explored with all operations: one date with two
\* count maps and a second date.
ServerBodies ==
    [date : { <<"2", "0", "2", "6", "-", "0", "2", "-", "0", "9">> }, counts : BodyCounts]
        \cup [date : { <<"2", "0", "2", "6", "-", "0", "2", "-", "1", "3">> },
              counts : { [k \in {"consult_a_90020"} |-> <<2, 1>>] }]

\* The :id parameters of the deletes and reads explored with all operations.
ServerIdParams == { <<"1">>, <<"2">> }

\* The budget set while day records are stored.
ServerBudgets == [month : { <<"2", "0", "2", "6", "-", "0", "2">> }, budget : { Cents(100000) }]

\* No request is being handled.
Quiet == \A c \in Clients : req[c].pc = "done"

NextServer ==
    \/ Tick
    \/ \E c \in Clients, b \in ServerBodies : PostDays(c, b.date, b.counts) /\ Quiet /\ StoreFrame
    \/ \E c \in Clients : PostGetDayByDate(c) /\ StoreFrame
    \/ \E c \in Clients : PostCreateDay(c) /\ StoreFrame
    \/ \E c \in Clients : PostCreateLineItems(c) /\ StoreFrame
    \/ \E c \in Clients : PostCreateLineItemsThrows(c) /\ StoreFrame
    \/ \E c \in Clients, param \in ServerIdParams : DeleteDays(c, param) /\ Quiet /\ StoreFrame
    \/ \E c \in Clients : DeleteDay(c) /\ StoreFrame
    \/ \E c \in Clients : GetDays(c) /\ Quiet /\ StoreFrame
    \/ \E c \in Clients : ListGetDays(c) /\ StoreFrame
    \/ \E c \in Clients, param \in ServerIdParams : GetDayById(c, param) /\ Quiet /\ StoreFrame
    \/ \E c \in Clients : DetailGetDay(c) /\ StoreFrame
    \/ \E c \in Clients : DetailGetLineItems(c) /\ StoreFrame
    \/ \E c \in Clients : GetExportAll(c) /\ Quiet /\ StoreFrame
    \/ \E c \in Clients : ExportGetDays(c) /\ StoreFrame
    \/ \E c \in Clients : ExportGetLineItems(c) /\ StoreFrame
    \/ \E c \in Clients, b \in ServerBudgets : SetBudget(c, b.month, b.budget) /\ Quiet /\ StoreFrame
    \/ \E c \in Clients : BudgetGetBudget(c) /\ StoreFrame
    \/ \E c \in Clients : BudgetUpdate(c) /\ StoreFrame
    \/ \E c \in Clients : BudgetInsert(c) /\ StoreFrame

SpecServer == InitStore /\ [][NextServer]_vars

\* C22: no step of a save, delete, read, export or budget operation, and no
\* tick of the clock, changes a stored day record: a record that is stored
\* before and after the step has the same date, createdAt and six totals.
C22_DayRecordNeverMutated ==
    [][\A d \in dailyTotals : \A e \in dailyTotals' :
          e.id = d.id =>
              /\ e.date = d.date
              /\ e.createdAt = d.createdAt
              /\ \A f \in TotalsFields : e[f] = d[f]]_vars

\* A record stamped at tick 0 is stored with a record stamped later, and a
\* read, an export or a setBudget call has returned since.
C22_Witness ==
    /\ \E d, e \in dailyTotals : d.createdAt = 0 /\ e.createdAt > 0
    /\ \E c \in Clients :
          req[c].op \in {"list", "detail", "exportAll", "setBudget"} /\ req[c].pc = "done"

(***************************************************************************)
(* Properties of the core computations and of the aggregated week totals.  *)
(***************************************************************************)
\* C23: computeTotals and groupByWorkWeek leave the caller's input alone:
\* after the calls made for a new record the count map is still a map as
\* handed, with its keys and values, and the list of day records is the list
\* before with the new record at its end, in length, order and content.
C23_InputsUnchanged ==
    [][LET n == Len(days')
       IN /\ counts' \in RecordCounts
          /\ n = Len(days) + 1
          /\ SubSeq(days', 1, Len(days)) = days
          /\ days'[n] = DayRecord(n, days'[n].date, counts')]_vars

\* The list holds a later date before an earlier one of the same week, which
\* the week's bucket holds in ascending order, and the count map lacks keys
\* of the catalog.
C23_Witness ==
    /\ Len(days) >= 2
    /\ localeCompare(days[1].date, days[2].date) > 0
    /\ \E w \in 1..Len(weeks) :
          /\ Len(weeks[w].days) >= 2
          /\ weeks[w].days[1] = days[2]
          /\ weeks[w].days[2] = days[1]
    /\ DOMAIN counts # CatalogKeys

\* C24: the aggregated totals of every work week satisfy the rule of a
\* totals result: totalHours = ceil(totalMinutes / 60) when the aggregated
\* minutes are > 0, and 0 otherwise.
C24_WeekHoursCeiling ==
    \A w \in 1..Len(weeks) :
        weeks[w].totalHours =
            IF weeks[w].totalMinutes > 0 THEN CeilHours(weeks[w].totalMinutes) ELSE 0

(***************************************************************************)
(* seedDatabase, run when the server starts, on the store the runs before  *)
(* have left: its awaits are steps as those of a handler, and it runs      *)
(* while no request is being handled.                                      *)
(***************************************************************************)
\* The object literal written as the set of its key-count pairs.
MapOf(pairs) == [k \in { p[1] : p \in pairs } |-> (CHOOSE p \in pairs : p[1] = k)[2]]

seedDays == <<
    [date   |-> <<"2", "0", "2", "6", "-", "0", "2", "-", "0", "9">>,
     counts |-> MapOf({ <<"facilities_visited", 1>>, <<"consult_a_90020", 4>>,
                        <<"consult_b_90035", 6>>, <<"consult_c_90043", 2>>,
                        <<"rmmr_standalone", 1>> })],
    [date   |-> <<"2", "0", "2", "6", "-", "0", "2", "-", "1", "0">>,
     counts |-> MapOf({ <<"facilities_visited", 1>>, <<"consult_a_90020", 3>>,
                        <<"consult_b_90035", 5>>, <<"consult_d_90051", 1>>,
                        <<"mdcp_731_standalone", 2>> })],
    [date   |-> <<"2", "0", "2", "6", "-", "0", "2", "-", "1", "1">>,
     counts |-> MapOf({ <<"facilities_visited", 1>>, <<"consult_b_90035", 4>>,
                        <<"consult_c_90043", 3>>, <<"consult_e_90054", 1>>,
                        <<"mdt_739", 1>> })],
    [date   |-> <<"2", "0", "2", "6", "-", "0", "2", "-", "1", "2">>,
     counts |-> MapOf({ <<"facilities_visited", 1>>, <<"consult_a_90020", 5>>,
                        <<"consult_b_90035", 3>>, <<"consult_c_90043", 1>>,
                        <<"health_ax", 1>> })],
    [date   |-> <<"2", "0", "2", "6", "-", "0", "2", "-", "1", "3">>,
     counts |-> MapOf({ <<"consult_a_90020", 2>>, <<"consult_b_90035", 7>>,
                        <<"consult_d_90051", 2>>, <<"rmmr_cobilled", 2>> })],
    [date   |-> <<"2", "0", "2", "6", "-", "0", "2", "-", "0", "3">>,
     counts |-> MapOf({ <<"facilities_visited", 2>>, <<"consult_a_90020", 6>>,
                        <<"consult_b_90035", 4>>, <<"consult_c_90043", 3>>,
                        <<"urgent_unsociable_599", 1>> })],
    [date   |-> <<"2", "0", "2", "6", "-", "0", "2", "-", "0", "4">>,
     counts |-> MapOf({ <<"facilities_visited", 1>>, <<"consult_b_90035", 8>>,
                        <<"consult_c_90043", 2>>, <<"consult_a_ah_5010", 2>>,
                        <<"rmmr_standalone", 3>> })],
    [date   |-> <<"2", "0", "2", "6", "-", "0", "2", "-", "0", "5">>,
     counts |-> MapOf({ <<"consult_a_90020", 3>>, <<"consult_b_90035", 5>>,
                        <<"consult_d_90051", 1>>, <<"mdcp_731_cobilled", 2>>,
                        <<"mdt_739", 1>> })] >>

\* fullCounts[item.key] = seedDay.counts[item.key] || 0 for every item.
FullCounts(cm) == [k \in CatalogKeys |-> CountOrZero(cm, k)]

\* The check left out: the seed days are written whatever the store holds.
ReturnsEarlyNever(existingDays) == FALSE

\* if (existingDays.length > 0) return;
ReturnsEarly(existingDays) == Len(existingDays) > 0

\* seedDatabase() is called: getDays is called.
SeedDatabase(c) ==
    /\ Accepts(c)
    /\ issued' = issued + 1
    /\ req' = [req EXCEPT ![c] = [IdleRequest EXCEPT !.op = "seed", !.pc = "getDays"]]
    /\ UNCHANGED <<tableVars, serial>>

\* getDays returns: seedDatabase returns when a day is stored, else the totals
\* of the first seed day are computed and createDay is called.
SeedGetDays(c) ==
    /\ req[c].op = "seed"
    /\ req[c].pc = "getDays"
    /\ IF ReturnsEarly(getDays)
       THEN req' = [req EXCEPT ![c].pc = "done"]
       ELSE req' = [req EXCEPT ![c].pc = "createDay", ![c].days = seedDays,
                               ![c].counts = FullCounts(seedDays[1].counts),
                               ![c].createdAt = now]
    /\ UNCHANGED <<tableVars, serial, issued>>

\* createDay returns with the row of the seed day in turn, and
\* createLineItems is called; or it threw on the unique constraint, and
\* seedDatabase rejects.
SeedCreateDay(c) ==
    /\ req[c].op = "seed"
    /\ req[c].pc = "createDay"
    /\ serial' = [serial EXCEPT !.dailyTotals = @ + 1]
    /\ IF DateTaken(req[c].days[1].date)
       THEN /\ req' = [req EXCEPT ![c].pc = "done", ![c].threw = TRUE, ![c].days = <<>>,
                                  ![c].counts = <<>>, ![c].createdAt = 0]
            /\ UNCHANGED dailyTotals
       ELSE /\ dailyTotals' =
                   RowsAfterInsert(DayRow(serial.dailyTotals, req[c].days[1].date,
                                          req[c].counts, req[c].createdAt))
            /\ req' = [req EXCEPT ![c].pc = "createLineItems", ![c].id = serial.dailyTotals,
                                    ![c].createdAt = 0]
    /\ UNCHANGED <<dailyLineItems, monthlyBudgets, issued>>

\* createLineItems returns: the rows of the seed day are stored, and the loop
\* goes on with the next seed day or seedDatabase returns; or the insert
\* threw on the foreign key, and seedDatabase rejects.
SeedCreateLineItems(c) ==
    /\ req[c].op = "seed"
    /\ req[c].pc = "createLineItems"
    /\ serial' = [serial EXCEPT !.dailyLineItems = @ + Len(LINE_ITEMS)]
    /\ IF getDay(req[c].id) # {}
       THEN /\ dailyLineItems' = dailyLineItems \cup
                   LineItemRows(req[c].id, req[c].counts, serial.dailyLineItems)
            /\ IF Len(req[c].days) = 1
               THEN req' = [req EXCEPT ![c].pc = "done", ![c].days = <<>>, ![c].counts = <<>>]
               ELSE req' = [req EXCEPT ![c].pc = "createDay", ![c].days = Tail(@),
                                       ![c].counts = FullCounts(req[c].days[2].counts),
                                       ![c].createdAt = now]
       ELSE /\ req' = [req EXCEPT ![c].pc = "done", ![c].threw = TRUE, ![c].days = <<>>,
                                  ![c].counts = <<>>]
            /\ UNCHANGED dailyLineItems
    /\ UNCHANGED <<dailyTotals, monthlyBudgets, issued>>

NextSeed ==
    \/ \E c \in Clients : SeedDatabase(c) /\ Quiet /\ StoreFrame
    \/ \E c \in Clients : SeedGetDays(c) /\ StoreFrame
    \/ \E c \in Clients : SeedCreateDay(c) /\ StoreFrame
    \/ \E c \in Clients : SeedCreateLineItems(c) /\ StoreFrame
    \/ \E c \in Clients, b \in ServerBodies : PostDays(c, b.date, b.counts) /\ Quiet /\ StoreFrame
    \/ \E c \in Clients : PostGetDayByDate(c) /\ StoreFrame
    \/ \E c \in Clients : PostCreateDay(c) /\ StoreFrame
    \/ \E c \in Clients : PostCreateLineItems(c) /\ StoreFrame
    \/ \E c \in Clients, param \in ServerIdParams : DeleteDays(c, param) /\ Quiet /\ StoreFrame
    \/ \E c \in Clients : DeleteDay(c) /\ StoreFrame

SpecSeed == InitStore /\ [][NextSeed]_vars

\* The dates of the seed days.
SeedDates == { seedDays[i].date : i \in 1..Len(seedDays) }

\* C25: seedDatabase run on a store that holds a day record returns at once
\* and changes no table, so a second run in a row changes nothing; run on an
\* empty store it ends with 8 day records, those of the seed days, each with
\* its line-item rows, and the records fall into exactly 2 work weeks (their
\* dates have 2 Mondays, the keys under which groupByWorkWeek groups).
C25_SeedOnlyWhenEmpty ==
    [][\A c \in Clients :
          /\ (StepsFrom(c, "seed", "getDays") /\ dailyTotals # {})
                => /\ req'[c].pc = "done"
                   /\ UNCHANGED tableVars
          /\ (req[c].op = "seed" /\ req[c].pc = "createLineItems" /\ req'[c].pc = "done")
                => /\ Cardinality(dailyTotals') = 8
                   /\ { d.date : d \in dailyTotals' } = SeedDates
                   /\ \A d \in dailyTotals' :
                         Cardinality({ r \in dailyLineItems' : r.dailyTotalId = d.id })
                             = Len(LINE_ITEMS)
                   /\ Cardinality({ getMonday(d.date) : d \in dailyTotals' }) = 2]_vars

\* The seed days are stored and a later run of seedDatabase has returned
\* without creating a record.
C25_Witness ==
    /\ { d.date : d \in dailyTotals } = SeedDates
    /\ Cardinality(dailyLineItems) = 8 * Len(LINE_ITEMS)
    /\ \E c \in Clients :
          req[c].op = "seed" /\ req[c].pc = "done" /\ req[c].id = 0 /\ ~req[c].threw

\* The line-item rows of day record d.
RowsOf(d) == { r \in dailyLineItems : r.dailyTotalId = d.id }

\* computeTotals on the counts of `rows`, with the minutes and amounts the
\* rows hold.
TotalsOfRows(rows) ==
    FinishTotals(
        [totalMinutes     |-> SumSet(rows, [r \in rows |-> r.count * r.minutesPerItem]),
         prelimWithBbi    |-> SumSet(rows, [r \in rows |-> r.count * (r.baseAmount + r.bbiAmount)]),
         prelimWithoutBbi |-> SumSet(rows, [r \in rows |-> r.count * r.baseAmount])])

\* The record has one row per catalog key and no other, and its six totals
\* are those computed from its rows.
MatchesItsRows(d) ==
    /\ Cardinality(RowsOf(d)) = Len(LINE_ITEMS)
    /\ \A k \in CatalogKeys : Cardinality({ r \in RowsOf(d) : r.itemKey = k }) = 1
    /\ \A f \in TotalsFields : d[f] = TotalsOfRows(RowsOf(d))[f]

\* C26: when every save and delete received has been answered, each stored
\* day record has exactly one line-item row per catalog key, and its stored
\* totals equal computeTotals of the counts, minutes and amounts in its rows.
C26_TotalsMatchRows ==
    Quiet => \A d \in dailyTotals : MatchesItsRows(d)

\* Every stored day record whose rows were inserted matches them, at any
\* moment.
C26_DaysWithRowsMatch ==
    \A d \in dailyTotals : RowsOf(d) # {} => MatchesItsRows(d)

\* C27: a save is all-or-nothing: no state holds a day record without its
\* line-item rows, unless its save is between its two inserts; a save whose
\* line-item insert failed leaves no day record behind.
C27_SaveAllOrNothing ==
    \A d \in dailyTotals :
        \/ RowsOf(d) # {}
        \/ \E c \in Clients :
              req[c].op \in {"post", "seed"} /\ req[c].pc = "createLineItems" /\ req[c].id = d.id

(***************************************************************************)
(* The calculator page: calculateTotals of the client library and the      *)
(* state of CalculatorPage (counts, weekEnding, the save mutation).  In    *)
(* this part `counts` is the state of the page and `totals` the value of   *)
(* useMemo(() => calculateTotals(counts), [counts]).                       *)
(***************************************************************************)
\* The loop body of calculateTotals for catalog item `item`.
CalcAccumulate(acc, item, c) ==
    [totalMinutes     |-> acc.totalMinutes + c * item.minutes,
     prelimWithBbi    |-> acc.prelimWithBbi + c * (item.baseAmount + item.bbiAmount),
     prelimWithoutBbi |-> acc.prelimWithoutBbi + c * item.baseAmount]

RECURSIVE CalcLoop(_, _, _)
\* for (const item of LINE_ITEMS) { const c = counts[item.key] || 0; ... },
\* from catalog position i on.
CalcLoop(cm, i, acc) ==
    IF i > Len(LINE_ITEMS) THEN acc
    ELSE CalcLoop(cm, i + 1,
                  CalcAccumulate(acc, LINE_ITEMS[i],
                                 IF LINE_ITEMS[i].key \in DOMAIN cm /\ cm[LINE_ITEMS[i].key] # 0
                                 THEN cm[LINE_ITEMS[i].key] ELSE 0))

\* Math.floor(totalMinutes / 60) in place of Math.ceil.
CalcHoursFloor(totalMinutes) == IF totalMinutes > 0 THEN FloorHours(totalMinutes) ELSE 0

\* totalMinutes > 0 ? Math.ceil(totalMinutes / 60) : 0
CalcHours(totalMinutes) == IF totalMinutes > 0 THEN CeilHours(totalMinutes) ELSE 0

\* The statements of calculateTotals after the loop and the returned object.
CalcFinish(acc) ==
    LET loading625 == Loading(acc.prelimWithoutBbi)
        totalBillings == acc.prelimWithBbi + loading625
    IN [totalMinutes     |-> acc.totalMinutes,
        totalHours       |-> CalcHours(acc.totalMinutes),
        prelimWithBbi    |-> acc.prelimWithBbi,
        prelimWithoutBbi |-> acc.prelimWithoutBbi,
        loading625       |-> loading625,
        totalBillings    |-> totalBillings]

calculateTotals(cm) ==
    CalcFinish(CalcLoop(cm, 1, [totalMinutes |-> 0, prelimWithBbi |-> 0, prelimWithoutBbi |-> 0]))

\* useState initialiser of counts: every catalog key with 0.
InitialCounts == [k \in CatalogKeys |-> 0]

\* Object.values(counts).some(c => c > 0)
hasAnyCounts == \E k \in DOMAIN counts : counts[k] > 0

\* parseInt(e.target.value) for the text of a number input, which may begin
\* with "-".
ParseIntEntry(s) ==
    IF s # <<>> /\ s[1] = "-"
    THEN [isNaN |-> parseInt(Tail(s)).isNaN, value |-> 0 - parseInt(Tail(s)).value]
    ELSE parseInt(s)

\* p || 0 for the result p of parseInt: 0 for NaN and for 0.
OrZero(p) == IF p.isNaN THEN 0 ELSE p.value

\* { ...prev, [key]: value }: the value is stored as it comes.
UpdatedCountsUnclamped(prev, key, value) ==
    [k \in DOMAIN prev \cup {key} |-> IF k = key THEN value ELSE prev[k]]

\* { ...prev, [key]: Math.max(0, value) }
UpdatedCounts(prev, key, value) ==
    [k \in DOMAIN prev \cup {key} |-> IF k = key THEN (IF value > 0 THEN value ELSE 0) ELSE prev[k]]

\* for (const key of Object.keys(prev)) cleared[key] = 0
ClearedCounts(prev) == [k \in DOMAIN prev |-> 0]

\* The items whose controls are used, of the 18 the page shows.
EntryKeys == { "facilities_visited", "consult_a_90020" }

\* The texts typed into a count input: a count, a negative number, the
\* empty text and a number with a fraction.
EntryTexts == { <<"2">>, <<"-", "1">>, <<>>, <<"1", ".", "5">> }

\* The values of the date input: none and a date.
EntryDates == { <<>>, <<"2", "0", "2", "6", "-", "0", "2", "-", "0", "9">> }

\* setCounts(next) and the memo of the totals that follows the render.
SetCounts(next) ==
    /\ counts' = next
    /\ totals' = calculateTotals(next)

CalcFrame == UNCHANGED <<firstTotals, calls, dateVars, groupVars, storeVars, pageVars>>

\* The + button of an item: updateCount(key, (counts[key] || 0) + 1).
Increment(key) ==
    /\ counts[key] < MaxCount
    /\ SetCounts(UpdatedCounts(counts, key, counts[key] + 1))
    /\ UNCHANGED calcVars
    /\ CalcFrame

\* The - button of an item, disabled while the count is 0:
\* updateCount(key, (counts[key] || 0) - 1).
Decrement(key) ==
    /\ counts[key] # 0
    /\ SetCounts(UpdatedCounts(counts, key, counts[key] - 1))
    /\ UNCHANGED calcVars
    /\ CalcFrame

\* onChange of the count input: updateCount(key, parseInt(e.target.value) || 0).
DirectEntry(key, text) ==
    /\ OrZero(ParseIntEntry(text)) <= MaxCount
    /\ UpdatedCounts(counts, key, OrZero(ParseIntEntry(text))) # counts
    /\ SetCounts(UpdatedCounts(counts, key, OrZero(ParseIntEntry(text))))
    /\ UNCHANGED calcVars
    /\ CalcFrame

\* The Clear button, disabled while no count is > 0: clearCounts().
ClearCounts ==
    /\ hasAnyCounts
    /\ SetCounts(ClearedCounts(counts))
    /\ UNCHANGED calcVars
    /\ CalcFrame

\* onChange of the date input: setWeekEnding(e.target.value).
SetWeekEnding(date) ==
    /\ date # weekEnding
    /\ weekEnding' = date
    /\ UNCHANGED <<counts, totals, saveMutation>>
    /\ CalcFrame

\* The Save button, disabled while a save is pending: handleSave() sends the
\* request unless the date is empty or no count is > 0 (it then only shows a
\* toast).
HandleSave ==
    /\ ~saveMutation.isPending
    /\ saveMutation.sent < MaxRequests
    /\ weekEnding # <<>>
    /\ hasAnyCounts
    /\ saveMutation' = [isPending |-> TRUE, sent |-> saveMutation.sent + 1,
                        body |-> <<[weekEnding |-> weekEnding, counts |-> counts]>>]
    /\ UNCHANGED <<counts, totals, weekEnding>>
    /\ CalcFrame

\* onSuccess of the mutation: clearCounts() and setWeekEnding("").
SaveSucceeds ==
    /\ saveMutation.isPending
    /\ saveMutation' = [saveMutation EXCEPT !.isPending = FALSE]
    /\ SetCounts(ClearedCounts(counts))
    /\ weekEnding' = <<>>
    /\ CalcFrame

\* onError of the mutation: a toast; counts and date stay.
SaveFails ==
    /\ saveMutation.isPending
    /\ saveMutation' = [saveMutation EXCEPT !.isPending = FALSE]
    /\ UNCHANGED <<counts, totals, weekEnding>>
    /\ CalcFrame

InitCalculator ==
    /\ counts = InitialCounts
    /\ totals = calculateTotals(InitialCounts)
    /\ firstTotals = FinishTotals(ZeroAcc)
    /\ calls = 1
    /\ InitOther

NextCalculator ==
    \/ \E key \in EntryKeys : Increment(key)
    \/ \E key \in EntryKeys : Decrement(key)
    \/ \E key \in EntryKeys, text \in EntryTexts : DirectEntry(key, text)
    \/ ClearCounts
    \/ \E date \in EntryDates : SetWeekEnding(date)
    \/ HandleSave
    \/ SaveSucceeds
    \/ SaveFails

SpecCalculator == InitCalculator /\ [][NextCalculator]_vars

C29_CalculatorCounts ==
    [][/\ DOMAIN counts' = CatalogKeys
       /\ \A k \in DOMAIN counts' : counts'[k] \in Nat
       /\ ClearCounts => \A k \in CatalogKeys : counts'[k] = 0
       /\ saveMutation'.sent > saveMutation.sent =>
             /\ weekEnding # <<>>
             /\ \E k \in CatalogKeys : counts[k] > 0
             /\ saveMutation'.body = <<[weekEnding |-> weekEnding, counts |-> counts]>>]_vars

\* A save of the counts of one item was sent and answered, which cleared the
\* page and the date.
C29_Witness ==
    /\ saveMutation.sent > 0
    /\ ~saveMutation.isPending
    /\ \A k \in CatalogKeys : counts[k] = 0
    /\ weekEnding = <<>>
    /\ saveMutation.body[1].counts["facilities_visited"] = 0
    /\ saveMutation.body[1].counts["consult_a_90020"] > 0

\* C30: a date is free again when its record is deleted.  The delete leaves
\* no record with the date and no line-item row of the record; a save whose
\* existence check finds no record with its date goes on to the insert; and
\* the insert of a date that no record holds stores a new record, without
\* rows so far, whose totals are computeTotals of the counts of this save and
\* whose rows, once inserted, hold these counts.
C30_DateFreeAfterDelete ==
    [][\A c \in Clients :
          /\ StepsFrom(c, "delete", "deleteDay") =>
                \A d \in dailyTotals :
                    d.id = req[c].id =>
                        /\ ~\E e \in dailyTotals' : e.date = d.date
                        /\ ~\E r \in dailyLineItems' : r.dailyTotalId = d.id
          /\ (StepsFrom(c, "post", "getDayByDate") /\ ~\E d \in dailyTotals : d.date = req[c].date)
                => req'[c].pc = "createDay"
          /\ (StepsFrom(c, "post", "createDay") /\ ~\E d \in dailyTotals : d.date = req[c].date)
                => /\ req'[c].pc = "createLineItems"
                   /\ \E e \in dailyTotals' \ dailyTotals :
                         /\ dailyTotals' = dailyTotals \cup {e}
                         /\ e.date = req[c].date
                         /\ e.id = req'[c].id
                         /\ \A d \in dailyTotals : d.id # e.id
                         /\ \A r \in dailyLineItems' : r.dailyTotalId # e.id
                         /\ \A f \in TotalsFields :
                               e[f] = computeTotals(ParsedCounts(req[c].counts))[f]
          /\ (StepsFrom(c, "post", "createLineItems") /\ req'[c].status = 201)
                => \A r \in dailyLineItems' :
                       r.dailyTotalId = req[c].id =>
                           r.count = CountOrZero(ParsedCounts(req[c].counts), r.itemKey)]_vars

\* The first record was deleted, and a save that followed the delete stored
\* the second record, the only one, with rows numbered after those of the
\* first.
C30_Witness ==
    \E c1, c2 \in Clients :
        /\ req[c1].op = "delete" /\ req[c1].status = 200 /\ req[c1].id = 1
        /\ req[c2].op = "post" /\ req[c2].status = 201 /\ req[c2].id = 2
        /\ \A d \in dailyTotals : d.id = 2 /\ d.date = req[c2].date
        /\ dailyLineItems # {}
        /\ \A r \in dailyLineItems : r.dailyTotalId = 2 /\ r.id > Len(LINE_ITEMS)

====
